---------------------------- MODULE Spec2Model ----------------------------
(***************************************************************************)
(* Model of the segmentation engine of ddown_parser                        *)
(* (src/ddown_parser/parsers): DdownParser._parse_elements runs seven      *)
(* passes of ElementParser over the lines of a document, each pass marks   *)
(* the lines it consumes in processed_lines and appends positioned         *)
(* elements, and the elements are finally sorted by position.              *)
(*                                                                         *)
(* A Python str is modelled as a sequence of one-character strings, a text *)
(* as the sequence of its lines (str.split('\n') of the text).  Line       *)
(* numbers are the 0-based numbers of the source: line n of the document   *)
(* is lines[n + 1], its claim flag is processed_lines[n + 1].              *)
(***************************************************************************)
EXTENDS Integers, Sequences, FiniteSets, TLC

(***************************************************************************)
(* Python str and list primitives used by the parser.                      *)
(***************************************************************************)
Whitespace == {" ", "\t", "\n", "\r"}

Digits == {"0", "1", "2", "3", "4", "5", "6", "7", "8", "9"}

Min(S) == CHOOSE x \in S : \A y \in S : x <= y

Max(S) == CHOOSE x \in S : \A y \in S : y <= x

\* Python slicing s[a-1:b] with 1-based inclusive bounds, clipped to the string.
slice(s, a, b) ==
  LET lo == IF a < 1 THEN 1 ELSE a
      hi == IF b > Len(s) THEN Len(s) ELSE b
  IN  IF lo > hi THEN << >> ELSE SubSeq(s, lo, hi)

IsBlank(s) == \A k \in 1..Len(s) : s[k] \in Whitespace

strip(s) ==
  LET between(nz) == IF nz = {} THEN << >> ELSE slice(s, Min(nz), Max(nz))
  IN  between({k \in 1..Len(s) : s[k] \notin Whitespace})

startswith(s, p) == Len(s) >= Len(p) /\ slice(s, 1, Len(p)) = p

endswith(s, p) == Len(s) >= Len(p) /\ slice(s, Len(s) - Len(p) + 1, Len(s)) = p

\* str.find from a 1-based index; 0 when p does not occur at or after from.
find(s, p, from) ==
  LET leftmost(hits) == IF hits = {} THEN 0 ELSE Min(hits)
  IN  leftmost({k \in from..(Len(s) - Len(p) + 1) : slice(s, k, k + Len(p) - 1) = p})

\* str.replace(old, new): every non-overlapping occurrence, left to right.
RECURSIVE replace(_, _, _)
replace(s, old, new) ==
  LET at(k) ==
        IF old = << >> \/ k = 0 THEN s
        ELSE slice(s, 1, k - 1) \o new
             \o replace(slice(s, k + Len(old), Len(s)), old, new)
  IN  at(find(s, old, 1))

\* str.split(c) on a one-character separator.
RECURSIVE split(_, _)
split(s, c) ==
  LET at(k) == IF k = 0 THEN <<s>>
               ELSE <<slice(s, 1, k - 1)>> \o split(slice(s, k + 1, Len(s)), c)
  IN  at(find(s, <<c>>, 1))

\* str.split(c, 1): at most one split.
split1(s, c) ==
  LET at(k) == IF k = 0 THEN <<s>>
               ELSE <<slice(s, 1, k - 1), slice(s, k + 1, Len(s))>>
  IN  at(find(s, <<c>>, 1))

\* str.split() without arguments: the maximal runs of non-whitespace.
RECURSIVE split_ws(_)
split_ws(s) ==
  LET runs(t, ws) ==
        IF t = << >> THEN << >>
        ELSE IF ws = {} THEN <<t>>
        ELSE <<slice(t, 1, Min(ws) - 1)>> \o split_ws(slice(t, Min(ws), Len(t)))
      stripped(t) == runs(t, {k \in 1..Len(t) : t[k] \in Whitespace})
  IN  stripped(strip(s))

\* sep.join(parts)
RECURSIVE join(_, _)
join(parts, sep) ==
  IF parts = << >> THEN << >>
  ELSE IF Len(parts) = 1 THEN parts[1]
  ELSE parts[1] \o sep \o join(Tail(parts), sep)

\* str.strip('|'): drop every leading and trailing occurrence of c.
strip_char(s, c) ==
  LET between(nz) == IF nz = {} THEN << >> ELSE slice(s, Min(nz), Max(nz))
  IN  between({k \in 1..Len(s) : s[k] # c})

(***************************************************************************)
(* Python dict primitives: a dict is a function on its set of keys.        *)
(***************************************************************************)
EmptyDict == [x \in {} |-> << >>]

\* d.update(e): the entries of e overwrite those of d.
dict_update(d, e) ==
  [x \in (DOMAIN d) \cup (DOMAIN e) |-> IF x \in DOMAIN e THEN e[x] ELSE d[x]]

\* d[k] = v
dict_set(d, k, v) == dict_update(d, [x \in {k} |-> v])

(***************************************************************************)
(* Attribute grammar (BaseParser).                                         *)
(***************************************************************************)
\* The loop "for style_item in style_content.split(';')": an item without
\* ':' raises ValueError in the tuple unpacking and is skipped.
RECURSIVE parse_style_items(_, _)
parse_style_items(items, style_dict) ==
  LET unpacked(style_item, kv) ==
        IF style_item = << >> \/ Len(kv) < 2
        THEN parse_style_items(Tail(items), style_dict)
        ELSE parse_style_items(Tail(items),
                               dict_set(style_dict, strip(kv[1]), strip(kv[2])))
      item(style_item) == unpacked(style_item, split1(style_item, ":"))
  IN  IF items = << >> THEN style_dict ELSE item(strip(items[1]))

parse_style_content(style_content) ==
  parse_style_items(split(style_content, ";"), EmptyDict)

\* First '}' strictly after index k; 0 when there is none.
next_close(t, k) == find(t, <<"}">>, k + 1)

\* style_patterns['inline'] without its opening brace, @\s*([^}]+)\s*\} :
\* leftmost '@' that is followed by at least one character other than '}'
\* and then by '}'.
search_inline_unbraced(t) ==
  LET leftmost(hits) ==
        IF hits = {} THEN [start |-> 0, end |-> 0]
        ELSE [start |-> Min(hits), end |-> next_close(t, Min(hits))]
  IN  leftmost({p \in 1..Len(t) : t[p] = "@" /\ next_close(t, p) >= p + 2})

\* style_patterns['inline'] = \{@\s*([^}]+)\s*\} : leftmost '{@' that is
\* followed by at least one character other than '}' and then by '}'.
\* Returns the 1-based span of group(0), or start = 0 when nothing matches.
search_inline(t) ==
  LET leftmost(hits) ==
        IF hits = {} THEN [start |-> 0, end |-> 0]
        ELSE [start |-> Min(hits), end |-> next_close(t, Min(hits) + 1)]
  IN  leftmost({p \in 1..Len(t) :
                  /\ slice(t, p, p + 1) = <<"{", "@">>
                  /\ next_close(t, p + 1) >= p + 3})

\* style_patterns['class_id'] = \{([#.][^}]+)\}
search_class_id(t) ==
  LET leftmost(hits) ==
        IF hits = {} THEN [start |-> 0, end |-> 0]
        ELSE [start |-> Min(hits), end |-> next_close(t, Min(hits) + 1)]
  IN  leftmost({p \in 1..Len(t) :
                  /\ p + 1 <= Len(t)
                  /\ t[p] = "{"
                  /\ t[p + 1] \in {"#", "."}
                  /\ next_close(t, p + 1) >= p + 3})

\* The iteration without its last statement, "cleaned_text =
\* cleaned_text.replace(inline_style_match.group(0), '')": the matched block
\* stays in the text.
inline_style_iteration_keeps_text(cleaned_text, attributes, m) ==
  LET old == IF "style" \in DOMAIN attributes THEN attributes["style"] ELSE EmptyDict
      updated(style_dict) ==
        IF DOMAIN style_dict = {} THEN attributes
        ELSE dict_set(attributes, "style", dict_update(old, style_dict))
      style_content == strip(slice(cleaned_text, m.start + 2, m.end - 1))
  IN  [text |-> cleaned_text,
       attributes |-> updated(parse_style_content(style_content))]

\* One iteration of the loop over the inline style blocks, for the match m:
\* the properties of the block are merged into attributes['style'] and
\* every occurrence of the matched block is removed from the text.
inline_style_iteration(cleaned_text, attributes, m) ==
  LET old == IF "style" \in DOMAIN attributes THEN attributes["style"] ELSE EmptyDict
      updated(style_dict) ==
        IF DOMAIN style_dict = {} THEN attributes
        ELSE dict_set(attributes, "style", dict_update(old, style_dict))
      group0 == slice(cleaned_text, m.start, m.end)
      style_content == strip(slice(cleaned_text, m.start + 2, m.end - 1))
  IN  [text |-> replace(cleaned_text, group0, << >>),
       attributes |-> updated(parse_style_content(style_content))]

\* "while True" loop over the inline style blocks.
RECURSIVE inline_style_loop(_, _)
inline_style_loop(cleaned_text, attributes) ==
  LET again(next) == inline_style_loop(next.text, next.attributes)
      matched(m) ==
        IF m.start = 0 THEN [text |-> cleaned_text, attributes |-> attributes]
        ELSE again(inline_style_iteration(cleaned_text, attributes, m))
  IN  matched(search_inline(cleaned_text))

\* The loop "for selector in class_id_content.split()".
RECURSIVE parse_selectors(_, _)
parse_selectors(selectors, acc) ==
  IF selectors = << >> THEN acc
  ELSE LET selector == selectors[1]
       IN  IF startswith(selector, <<".">>)
           THEN parse_selectors(Tail(selectors),
                  [acc EXCEPT !.classes = Append(@, Tail(selector))])
           ELSE IF startswith(selector, <<"#">>)
           THEN parse_selectors(Tail(selectors),
                  [acc EXCEPT !.element_id = Tail(selector)])
           ELSE parse_selectors(Tail(selectors), acc)

\* One iteration of the loop over the class/id blocks, for the match m.
\* element_id is None (<< >> is falsy like None) unless a '#x' selector
\* with non-empty x was seen.
class_id_iteration(cleaned_text, attributes, m) ==
  LET oldc == IF "classes" \in DOMAIN attributes THEN attributes["classes"] ELSE << >>
      with_classes(sel) ==
        IF sel.classes = << >> THEN attributes
        ELSE dict_set(attributes, "classes", oldc \o sel.classes)
      with_id(sel, attrs) ==
        IF sel.element_id = << >> THEN attrs
        ELSE dict_set(attrs, "id", sel.element_id)
      updated(sel) == with_id(sel, with_classes(sel))
      group0 == slice(cleaned_text, m.start, m.end)
      class_id_content == strip(slice(cleaned_text, m.start + 1, m.end - 1))
  IN  [text |-> replace(cleaned_text, group0, << >>),
       attributes |-> updated(parse_selectors(split_ws(class_id_content),
                                              [classes |-> << >>, element_id |-> << >>]))]

\* "while True" loop over the class/id blocks.
RECURSIVE class_id_loop(_, _)
class_id_loop(cleaned_text, attributes) ==
  LET again(next) == class_id_loop(next.text, next.attributes)
      matched(m) ==
        IF m.start = 0 THEN [text |-> cleaned_text, attributes |-> attributes]
        ELSE again(class_id_iteration(cleaned_text, attributes, m))
  IN  matched(search_class_id(cleaned_text))

extract_inline_attributes(text) ==
  LET class_ids(a) == class_id_loop(a.text, a.attributes)
      result(b) == [text |-> strip(b.text), attributes |-> b.attributes]
  IN  result(class_ids(inline_style_loop(text, EmptyDict)))

(***************************************************************************)
(* Pattern registry (BaseParser.__init__) at the level of lines.           *)
(***************************************************************************)
\* Underline characters of heading_patterns 'h1'..'h5'.
HeadingMarker == <<"=", "-", "~", "^", "*">>

\* The second line of a heading pattern: (c{3,}) followed by \s*$.
is_underline(line, c) ==
  \E n \in 3..Len(line) :
     /\ \A k \in 1..n : line[k] = c
     /\ IsBlank(slice(line, n + 1, Len(line)))

\* heading_patterns[level] = ^(.+?)\n(c{3,})\s*$ with re.MULTILINE matches
\* at the start of line n when line n has at least one character and line
\* n + 1 is an underline of the level.  ls is the sequence of lines.
heading_match_at(ls, n, lvl) ==
  /\ n + 2 <= Len(ls)
  /\ Len(ls[n + 1]) >= 1
  /\ is_underline(ls[n + 2], HeadingMarker[lvl])

\* The greedy \s* of a heading pattern also consumes the newlines and the
\* whitespace-only lines that follow the underline: the match ends at the
\* end of the last line of that run, and finditer resumes from there.
heading_match_end(ls, n) ==
  Max({j \in (n + 1)..(Len(ls) - 1) : \A k \in (n + 2)..j : IsBlank(ls[k + 1])})

\* Lines at which pattern.finditer(content) of a level still finds a match
\* when the previous match of the level ended before line from.
heading_candidates(ls, lvl, from) ==
  {n \in from..(Len(ls) - 2) : heading_match_at(ls, n, lvl)}

(***************************************************************************)
(* Python list primitives on processed_lines.                              *)
(***************************************************************************)
\* l[a:b] = vals, a and b 0-based, b exclusive and clipped to len(l): the
\* list grows when vals is longer than the slice it replaces.
slice_assign(l, a, b, vals) == slice(l, 1, a) \o vals \o slice(l, b + 1, Len(l))

\* A fresh list of False with entry n set to v: every other entry is reset.
item_assign_resets(l, n, v) == [k \in 1..Len(l) |-> k = n + 1 /\ v]

\* l[n] = v, n 0-based
item_assign(l, n, v) == [l EXCEPT ![n + 1] = v]

\* [True] * k
Trues(k) == [x \in 1..k |-> TRUE]

\* [False] * k
Falses(k) == [x \in 1..k |-> FALSE]

\* str.count('\n') of the first k characters of t
count_newlines(t, k) == Cardinality({x \in 1..k : x <= Len(t) /\ t[x] = "\n"})

(***************************************************************************)
(* Elements (elements/*.py, to_dict).                                      *)
(***************************************************************************)
None == "None"

HeadingElement(content_, level_, attributes_) ==
  [type |-> "heading", content |-> content_, attributes |-> attributes_,
   level |-> level_]

CodeBlockElement(content_, language_) ==
  [type |-> "code_block", content |-> content_, attributes |-> EmptyDict,
   language |-> language_]

BlockquoteElement(content_) ==
  [type |-> "blockquote", content |-> content_, attributes |-> EmptyDict]

TableElement(rows_) ==
  [type |-> "table", content |-> << >>, attributes |-> EmptyDict, rows |-> rows_]

\* first_in_list and last_in_list keep the defaults of __init__: no caller
\* in parsers/ passes them.
ListItemElement(content_, list_type_, list_index_, attributes_) ==
  [type |-> "list_item", content |-> content_, attributes |-> attributes_,
   list_type |-> list_type_, list_index |-> list_index_,
   first_in_list |-> FALSE, last_in_list |-> FALSE,
   list_attributes |-> EmptyDict]

ListElement(items_, list_type_) ==
  [type |-> "list", content |-> << >>, attributes |-> EmptyDict,
   list_type |-> list_type_, items |-> items_]

ParagraphElement(content_) ==
  [type |-> "paragraph", content |-> content_, attributes |-> EmptyDict]

\* One entry of elements_with_position.
Positioned(position_, element_) == [position |-> position_, element |-> element_]

(***************************************************************************)
(* Inline elements (ElementParser.process_inline_elements and the          *)
(* replacement loop of the list and paragraph passes).  The texts handed   *)
(* to it hold no newline, so '.' matches every character.                  *)
(***************************************************************************)
\* link_pattern = \[(.*?)\]\((.*?)\) : leftmost '[' at or after from that is
\* followed by a '](' and then by a ')'; both groups are lazy.
search_link(t, from) ==
  LET mid(p) == find(t, <<"]", "(">>, p + 1)
      close_after(q) == IF q = 0 THEN 0 ELSE find(t, <<")">>, q + 2)
      close(p) == close_after(mid(p))
      span(p, q) == [start |-> p, mid |-> q, end |-> close_after(q)]
      leftmost(hits) ==
        IF hits = {} THEN [start |-> 0, mid |-> 0, end |-> 0]
        ELSE span(Min(hits), mid(Min(hits)))
  IN  leftmost({p \in from..Len(t) : t[p] = "[" /\ close(p) > 0})

\* image_pattern = !\[(.*?)\]\((.*?)\)
search_image(t, from) ==
  LET span(p, m) == [start |-> p, mid |-> m.mid, end |-> m.end]
      leftmost(hits) ==
        IF hits = {} THEN [start |-> 0, mid |-> 0, end |-> 0]
        ELSE span(Min(hits), search_link(t, Min(hits) + 1))
  IN  leftmost({p \in from..(Len(t) - 1) :
                  t[p] = "!" /\ t[p + 1] = "[" /\ search_link(t, p + 1).start = p + 1})

LinkElement_to_html(content_, href_) ==
  <<"<", "a", " ", "h", "r", "e", "f", "=", "\"">> \o href_ \o <<"\"", ">">>
    \o content_ \o <<"<", "/", "a", ">">>

ImageElement_to_html(alt_, src_) ==
  <<"<", "i", "m", "g", " ", "s", "r", "c", "=", "\"">> \o src_
    \o <<"\"", " ", "a", "l", "t", "=", "\"">> \o alt_ \o <<"\"", ">">>

\* "for link_match in self.link_pattern.finditer(text)": a match preceded by
\* '!' is left to the image pattern.
RECURSIVE find_links(_, _)
find_links(t, from) ==
  LET link(m) ==
        [type |-> "link", start |-> m.start,
         original |-> slice(t, m.start, m.end),
         html |-> LinkElement_to_html(slice(t, m.start + 1, m.mid - 1),
                                      slice(t, m.mid + 2, m.end - 1))]
      matched(m) ==
        IF m.start = 0 THEN << >>
        ELSE (IF m.start > 1 /\ t[m.start - 1] = "!" THEN << >> ELSE <<link(m)>>)
             \o find_links(t, m.end + 1)
  IN  matched(search_link(t, from))

\* "for image_match in self.image_pattern.finditer(text)"
RECURSIVE find_images(_, _)
find_images(t, from) ==
  LET image(m) ==
        [type |-> "image", start |-> m.start,
         original |-> slice(t, m.start, m.end),
         html |-> ImageElement_to_html(slice(t, m.start + 2, m.mid - 1),
                                       slice(t, m.mid + 2, m.end - 1))]
      matched(m) ==
        IF m.start = 0 THEN << >>
        ELSE <<image(m)>> \o find_images(t, m.end + 1)
  IN  matched(search_image(t, from))

\* list.sort(key=lambda x: x['start']): stable, by insertion.
RECURSIVE sort_by_start(_)
sort_by_start(l) ==
  IF l = << >> THEN << >>
  ELSE LET rest == sort_by_start(slice(l, 1, Len(l) - 1))
           x == l[Len(l)]
           before == SelectSeq(rest, LAMBDA y : y.start <= x.start)
           after == SelectSeq(rest, LAMBDA y : y.start > x.start)
       IN  before \o <<x>> \o after

process_inline_elements(text) ==
  sort_by_start(find_links(text, 1) \o find_images(text, 1))

\* "for element in inline_elements: text = text.replace(original, to_html())"
RECURSIVE replace_inline(_, _)
replace_inline(text, inline_elements) ==
  IF inline_elements = << >> THEN text
  ELSE replace_inline(replace(text, inline_elements[1].original, inline_elements[1].html),
                      Tail(inline_elements))

render_inline(text) == replace_inline(text, process_inline_elements(text))

(***************************************************************************)
(* State of one call of DdownParser._parse_elements.                       *)
(*   content                 the text handed to _parse_elements, by lines  *)
(*   lines, processed_lines, elements_with_position, elements              *)
(*                           the locals of _parse_elements                 *)
(*   pc                      the pass the call is in                       *)
(*   level, resume           heading and code-block passes: the pattern in *)
(*                           use (1..5) and the place from which its       *)
(*                           finditer resumes (a line number for heading   *)
(*                           patterns, a character offset for the fence    *)
(*                           pattern)                                      *)
(*   i, in_block, block_start_line, block_items                            *)
(*                           the loop index and the three locals that each *)
(*                           of the five line-by-line passes keeps         *)
(*                           (in_blockquote / in_table / in_list /         *)
(*                           in_paragraph, ..._start_line, ..._lines /     *)
(*                           table_rows / list_items)                      *)
(*   claims                  history: for every entry of processed_lines,  *)
(*                           the writes of True to it, each tagged with    *)
(*                           the pass and the start line of the element    *)
(*                           being built                                   *)
(***************************************************************************)
VARIABLES content, lines, processed_lines, elements_with_position, elements,
          pc, level, resume, i, in_block, block_start_line, block_items, claims

parse_vars == <<content, lines, processed_lines, elements_with_position, elements,
                pc, level, resume, i, in_block, block_start_line, block_items, claims>>

(***************************************************************************)
(* State of one call of BaseParser.extract_inline_attributes.              *)
(*   fragment     the text argument                                        *)
(*   extracted    the returned pair (cleaned text, attributes)             *)
(*   extract_pc   "idle" when no call is modelled, "call" before the call, *)
(*                "return" after it, "again" after a second call on the    *)
(*                returned text                                            *)
(***************************************************************************)
VARIABLES fragment, extracted, extract_pc

extract_vars == <<fragment, extracted, extract_pc>>

extract_idle ==
  /\ fragment = << >>
  /\ extracted = [text |-> << >>, attributes |-> [x \in {} |-> << >>]]
  /\ extract_pc = "idle"

(***************************************************************************)
(* The Document of DdownParser._parse_content is global_style together     *)
(* with elements.                                                          *)
(***************************************************************************)
VARIABLES global_style

(***************************************************************************)
(* State of one call of DdownParser.parse_file.                            *)
(*   output_format   the output_format argument                            *)
(*   file_exists     whether file_path exists                              *)
(*   file_text       what the file holds, by lines                         *)
(*   file_pc         the place of the call in parse_file ("idle" when no   *)
(*                   call is modelled)                                     *)
(*   raised          the exception that ended the call, or "None"          *)
(*   file_read       history: the file was opened and read                 *)
(***************************************************************************)
VARIABLES output_format, file_exists, file_text, file_pc, raised, file_read

file_vars == <<output_format, file_exists, file_text, file_pc, raised, file_read>>

file_idle ==
  /\ output_format = "html"
  /\ file_exists = FALSE
  /\ file_text = << >>
  /\ file_pc = "idle"
  /\ raised = "None"
  /\ file_read = FALSE

(***************************************************************************)
(* Calls of HtmlConverter.convert on the Document.                         *)
(*   html_out     the string returned by the last call, "None" before the  *)
(*                first                                                    *)
(*   html_calls   the number of calls made                                 *)
(***************************************************************************)
VARIABLES html_out, html_calls

html_vars == <<html_out, html_calls>>

html_idle ==
  /\ html_out = "None"
  /\ html_calls = 0

(***************************************************************************)
(* State of one call of PdfConverter.convert.                              *)
(*   pdfkit, weasyprint   the environment: what importing and running the  *)
(*                        backend does ("missing", "raises", "renders")    *)
(*   system               platform.system()                                *)
(*   pdf_pc               the place of the call in convert ("idle" when no *)
(*                        call is modelled)                                *)
(*   pdf_out              the value returned, "None" when none             *)
(*   pdf_raised           the exception raised to the caller, as the pair  *)
(*                        of its type and message, or "None"               *)
(*   stderr               the lines printed to sys.stderr                  *)
(***************************************************************************)
VARIABLES pdfkit, weasyprint, system, pdf_pc, pdf_out, pdf_raised, stderr

pdf_vars == <<pdfkit, weasyprint, system, pdf_pc, pdf_out, pdf_raised, stderr>>

pdf_idle ==
  /\ pdfkit = "missing"
  /\ weasyprint = "missing"
  /\ system = "Linux"
  /\ pdf_pc = "idle"
  /\ pdf_out = "None"
  /\ pdf_raised = "None"
  /\ stderr = << >>

\* What a call of _parse_elements leaves alone.
outside_parse_elements == <<extract_vars, global_style, file_vars, html_vars, pdf_vars>>

vars == <<parse_vars, extract_vars, global_style, file_vars, html_vars, pdf_vars>>

\* A test of the flag that finds no line processed.
is_processed_never(n) == FALSE

\* The flag of line n (0-based).
is_processed(n) == processed_lines[n + 1]

\* History of a write of True to the flags of the lines a..b-1 (0-based).
log_claims(cl, a, b, who) ==
  [k \in 1..Max({Len(cl), b}) |->
     IF k \in (a + 1)..b
     THEN (IF k <= Len(cl) THEN cl[k] ELSE << >>) \o <<who>>
     ELSE cl[k]]

Claimer(pass_, start_) == [pass |-> pass_, start |-> start_]

\* Locals of a line-by-line pass at its entry.
EnterLinePass(next_pc) ==
  /\ pc' = next_pc
  /\ i' = 0
  /\ in_block' = FALSE
  /\ block_start_line' = -1
  /\ block_items' = << >>

InitOn(docs) ==
  /\ content \in docs
  /\ lines = << >>
  /\ processed_lines = << >>
  /\ elements_with_position = << >>
  /\ elements = << >>
  /\ pc = "start"
  /\ level = 1
  /\ resume = 0
  /\ i = 0
  /\ in_block = FALSE
  /\ block_start_line = -1
  /\ block_items = << >>
  /\ claims = << >>
  /\ extract_idle
  /\ global_style = None
  /\ file_idle
  /\ html_idle
  /\ pdf_idle

(***************************************************************************)
(* Global style (style_patterns['global'], _extract_global_style and the   *)
(* removal at the head of _parse_elements).                                *)
(***************************************************************************)
OpenMarker ==
  <<"{", "@", "g", "l", "o", "b", "a", "l", "-", "s", "t", "y", "l", "e", "}">>

CloseMarker ==
  <<"{", "@", "e", "n", "d", "g", "l", "o", "b", "a", "l", "-", "s", "t", "y", "l", "e", "}">>

\* style_patterns['global'] = \{@global-style\}([\s\S]*?)\{@endglobal-style\}
\* searched in t from the 1-based offset from: the leftmost open marker that
\* has a close marker after it, up to the first such close marker.
\* open = 0 when nothing matches.
search_global(t, from) ==
  LET span(open, close) ==
        IF close = 0 THEN [open |-> 0, close |-> 0]
        ELSE [open |-> open, close |-> close]
      after_open(open) ==
        span(open, IF open = 0 THEN 0
                   ELSE find(t, CloseMarker, open + Len(OpenMarker)))
  IN  after_open(find(t, OpenMarker, from))

\* style_patterns['global'].sub('', t): every match is removed in one scan,
\* which goes on after the end of a match.
RECURSIVE global_sub(_)
global_sub(t) ==
  LET matched(m) ==
        IF m.open = 0 THEN t
        ELSE slice(t, 1, m.open - 1)
             \o global_sub(slice(t, m.close + Len(CloseMarker), Len(t)))
  IN  matched(search_global(t, 1))

\* _extract_global_style: group(1) of the first match, stripped, or None.
extract_global_style(t) ==
  LET matched(m) ==
        IF m.open = 0 THEN None
        ELSE strip(slice(t, m.open + Len(OpenMarker), m.close - 1))
  IN  matched(search_global(t, 1))

\* _parse_content up to its call of _parse_elements: the 'global_style'
\* entry of the dict is evaluated first.
parse_content ==
  /\ pc = "content"
  /\ global_style' = extract_global_style(join(content, <<"\n">>))
  /\ pc' = "start"
  /\ UNCHANGED <<content, lines, processed_lines, elements_with_position, elements,
                 level, resume, i, in_block, block_start_line, block_items, claims>>
  /\ UNCHANGED <<extract_vars, file_vars, html_vars, pdf_vars>>

\* _parse_elements without the removal of the global style blocks.
Begin_keeps_global_style ==
  /\ pc = "start"
  /\ lines' = content
  /\ processed_lines' = Falses(Len(content))
  /\ claims' = [k \in 1..Len(content) |-> << >>]
  /\ elements_with_position' = << >>
  /\ pc' = "headings"
  /\ level' = 1
  /\ resume' = 0
  /\ UNCHANGED <<content, elements, i, in_block, block_start_line, block_items>>
  /\ UNCHANGED outside_parse_elements

\* _parse_elements up to the first pass: the global style blocks are
\* removed from the text and the rest is split into lines.
Begin ==
  /\ pc = "start"
  /\ LET split_into(ls) ==
           /\ lines' = ls
           /\ processed_lines' = Falses(Len(ls))
           /\ claims' = [k \in 1..Len(ls) |-> << >>]
     IN  split_into(split(global_sub(join(content, <<"\n">>)), "\n"))
  /\ elements_with_position' = << >>
  /\ pc' = "headings"
  /\ level' = 1
  /\ resume' = 0
  /\ UNCHANGED <<content, elements, i, in_block, block_start_line, block_items>>
  /\ UNCHANGED outside_parse_elements

(***************************************************************************)
(* Pass 1: ElementParser.parse_headings.  One step handles the next match  *)
(* of "for level, pattern ...: for match in pattern.finditer(content)",    *)
(* or leaves the pass when no pattern has a match left.                    *)
(***************************************************************************)
\* Lines 45-66: the style declared on the line after underline_line.
heading_style_after(ls, underline_line) ==
  LET style_of(next_line) ==
        IF startswith(next_line, <<"{", "@">>) /\ endswith(next_line, <<"}">>)
        THEN parse_style_content(strip(slice(next_line, 3, Len(next_line) - 1)))
        ELSE EmptyDict
  IN  IF underline_line + 1 < Len(ls)
      THEN style_of(strip(ls[underline_line + 2]))
      ELSE EmptyDict

\* Lines 72-82: inline attributes merged over the following-line style.
merge_attributes(attributes, inline_attributes) ==
  [k \in (DOMAIN attributes) \cup (DOMAIN inline_attributes) |->
     IF k \notin DOMAIN inline_attributes THEN attributes[k]
     ELSE IF k \in DOMAIN attributes /\ k = "style"
          THEN dict_update(attributes[k], inline_attributes[k])
          ELSE inline_attributes[k]]

parse_headings ==
  /\ pc = "headings"
  /\ LET from(l) == IF l = level THEN resume ELSE 0
         open == {l \in level..5 : heading_candidates(lines, l, from(l)) # {}}
     IN  IF open = {}
         THEN /\ pc' = "code_blocks"
              /\ resume' = 1
              /\ UNCHANGED <<level, processed_lines, claims, elements_with_position>>
         ELSE LET end_line(start_line) == start_line + 1
                  underline_line(start_line) == end_line(start_line) + 1
                  who(start_line) == Claimer("heading", start_line)
                  style_attributes(style_dict) ==
                    IF DOMAIN style_dict = {} THEN EmptyDict
                    ELSE [x \in {"style"} |-> style_dict]
                  marked(start_line, style_dict) ==
                    IF DOMAIN style_dict = {} THEN processed_lines
                    ELSE item_assign(processed_lines, underline_line(start_line) + 1, TRUE)
                  logged(start_line, style_dict) ==
                    IF DOMAIN style_dict = {} THEN claims
                    ELSE log_claims(claims, underline_line(start_line) + 1,
                                    underline_line(start_line) + 2, who(start_line))
                  heading(l, style_dict, inline) ==
                    HeadingElement(inline.text, l,
                      merge_attributes(style_attributes(style_dict), inline.attributes))
                  matched(l, start_line, style_dict, inline) ==
                    /\ processed_lines' =
                         slice_assign(marked(start_line, style_dict), start_line,
                                      underline_line(start_line) + 1,
                                      Trues(underline_line(start_line) - start_line + 1))
                    /\ claims' = log_claims(logged(start_line, style_dict), start_line,
                                            underline_line(start_line) + 1, who(start_line))
                    /\ elements_with_position' =
                         Append(elements_with_position,
                                Positioned(start_line, heading(l, style_dict, inline)))
                    /\ level' = l
                    /\ resume' = heading_match_end(lines, start_line) + 1
                    /\ pc' = "headings"
                  at(l, start_line) ==
                    matched(l, start_line,
                            heading_style_after(lines, underline_line(start_line)),
                            extract_inline_attributes(strip(lines[start_line + 1])))
                  of_level(l) == at(l, Min(heading_candidates(lines, l, from(l))))
              IN  of_level(Min(open))
  /\ UNCHANGED <<content, lines, elements, i, in_block, block_start_line, block_items>>
  /\ UNCHANGED outside_parse_elements

(***************************************************************************)
(* Pass 2: ElementParser.parse_code_blocks.  One step handles the next     *)
(* match of code_block_pattern.finditer(content), or leaves the pass.      *)
(***************************************************************************)
\* The backtick character (it cannot be written in a TLA+ string).
Backtick == "BACKTICK"

Fence == <<Backtick, Backtick, Backtick>>

\* code_block_pattern = FENCE([^\n]*)\n([\s\S]*?)FENCE searched in t from the
\* 1-based offset from: the leftmost fence that has a newline after it and
\* another fence after that newline.  When the leftmost fence has no such
\* continuation no later one has.  open = 0 when nothing matches.
search_code_block(t, from) ==
  LET span(open, newline, close) ==
        IF close = 0 THEN [open |-> 0, newline |-> 0, close |-> 0]
        ELSE [open |-> open, newline |-> newline, close |-> close]
      after_newline(open, newline) ==
        span(open, newline, IF newline = 0 THEN 0 ELSE find(t, Fence, newline + 1))
      after_open(open) ==
        after_newline(open, IF open = 0 THEN 0 ELSE find(t, <<"\n">>, open + 3))
  IN  after_open(find(t, Fence, from))

parse_code_blocks ==
  /\ pc = "code_blocks"
  /\ LET language(text, m) == strip(slice(text, m.open + 3, m.newline - 1))
         code_content(text, m) == slice(text, m.newline + 1, m.close - 1)
         code_block(text, m) ==
           CodeBlockElement(code_content(text, m), language(text, m))
         spanning(text, m, start_line, end_line) ==
           /\ processed_lines' =
                slice_assign(processed_lines, start_line, end_line + 1,
                             Trues(end_line - start_line + 1))
           /\ claims' = log_claims(claims, start_line, end_line + 1,
                                   Claimer("code_block", start_line))
           /\ elements_with_position' =
                Append(elements_with_position,
                       Positioned(start_line, code_block(text, m)))
           /\ resume' = m.close + 3
           /\ UNCHANGED <<pc, i, in_block, block_start_line, block_items>>
         starting(text, m, start_line) ==
           spanning(text, m, start_line,
                    start_line + (count_newlines(text, m.close + 2) - start_line))
         matched(text, m) ==
           IF m.open = 0
           THEN /\ EnterLinePass("blockquotes")
                /\ UNCHANGED <<resume, processed_lines, claims, elements_with_position>>
           ELSE starting(text, m, count_newlines(text, m.open - 1))
         in_text(text) == matched(text, search_code_block(text, resume))
     IN  in_text(join(lines, <<"\n">>))
  /\ UNCHANGED <<content, lines, elements, level>>
  /\ UNCHANGED outside_parse_elements

(***************************************************************************)
(* Passes 3-7 walk "for i, line in enumerate(lines)".  One step is one     *)
(* iteration of the loop; the step taken at i = len(lines) is the code     *)
(* after the loop (the element still open at the end of the document) and  *)
(* the return to _parse_elements.                                          *)
(***************************************************************************)
Emit(element) ==
  elements_with_position' =
    Append(elements_with_position, Positioned(block_start_line, element))

CloseBlock == block_items' = << >> /\ in_block' = FALSE

ClaimLine(pass_, start_) ==
  /\ processed_lines' = item_assign(processed_lines, i, TRUE)
  /\ claims' = log_claims(claims, i, i + 1, Claimer(pass_, start_))

\* parse_blockquotes with the test "line.strip()" of the continuation
\* branch dropped: a blank line continues the open blockquote.
parse_blockquotes_blank_continues ==
  /\ pc = "blockquotes"
  /\ LET blockquote == BlockquoteElement(join(block_items, <<"\n">>))
         line == lines[i + 1]
         start_ == IF in_block THEN block_start_line ELSE i
     IN  IF i >= Len(lines)
         THEN /\ IF in_block /\ block_items # << >>
                 THEN Emit(blockquote)
                 ELSE UNCHANGED elements_with_position
              /\ EnterLinePass("tables")
              /\ UNCHANGED <<processed_lines, claims>>
         ELSE /\ i' = i + 1
              /\ pc' = pc
              /\ IF is_processed(i)
                 THEN /\ IF in_block /\ block_items # << >>
                         THEN Emit(blockquote) /\ CloseBlock
                         ELSE UNCHANGED <<elements_with_position, block_items, in_block>>
                      /\ UNCHANGED <<processed_lines, claims, block_start_line>>
                 ELSE IF startswith(strip(line), <<">">>)
                 THEN /\ block_start_line' = start_
                      /\ in_block' = TRUE
                      /\ block_items' = Append(block_items, strip(Tail(strip(line))))
                      /\ ClaimLine("blockquote", start_)
                      /\ UNCHANGED elements_with_position
                 ELSE IF in_block
                 THEN /\ block_items' = Append(block_items, strip(line))
                      /\ ClaimLine("blockquote", block_start_line)
                      /\ UNCHANGED <<elements_with_position, in_block, block_start_line>>
                 ELSE UNCHANGED <<processed_lines, claims, elements_with_position,
                                  in_block, block_start_line, block_items>>
  /\ UNCHANGED <<content, lines, elements, level, resume>>
  /\ UNCHANGED outside_parse_elements

\* Pass 3: ElementParser.parse_blockquotes
parse_blockquotes ==
  /\ pc = "blockquotes"
  /\ LET blockquote == BlockquoteElement(join(block_items, <<"\n">>))
         line == lines[i + 1]
         start_ == IF in_block THEN block_start_line ELSE i
     IN  IF i >= Len(lines)
         THEN /\ IF in_block /\ block_items # << >>
                 THEN Emit(blockquote)
                 ELSE UNCHANGED elements_with_position
              /\ EnterLinePass("tables")
              /\ UNCHANGED <<processed_lines, claims>>
         ELSE /\ i' = i + 1
              /\ pc' = pc
              /\ IF is_processed(i)
                 THEN /\ IF in_block /\ block_items # << >>
                         THEN Emit(blockquote) /\ CloseBlock
                         ELSE UNCHANGED <<elements_with_position, block_items, in_block>>
                      /\ UNCHANGED <<processed_lines, claims, block_start_line>>
                 ELSE IF startswith(strip(line), <<">">>)
                 THEN /\ block_start_line' = start_
                      /\ in_block' = TRUE
                      /\ block_items' = Append(block_items, strip(Tail(strip(line))))
                      /\ ClaimLine("blockquote", start_)
                      /\ UNCHANGED elements_with_position
                 ELSE IF in_block /\ strip(line) # << >>
                 THEN /\ block_items' = Append(block_items, strip(line))
                      /\ ClaimLine("blockquote", block_start_line)
                      /\ UNCHANGED <<elements_with_position, in_block, block_start_line>>
                 ELSE IF in_block
                 THEN /\ Emit(blockquote) /\ CloseBlock
                      /\ UNCHANGED <<processed_lines, claims, block_start_line>>
                 ELSE UNCHANGED <<processed_lines, claims, elements_with_position,
                                  in_block, block_start_line, block_items>>
  /\ UNCHANGED <<content, lines, elements, level, resume>>
  /\ UNCHANGED outside_parse_elements

\* table_separator_pattern = ^\|[-:\s|]+\|\s*$ tried with match() on a line
is_separator(line) ==
  \E e \in 3..Len(line) :
     /\ line[1] = "|"
     /\ line[e] = "|"
     /\ \A k \in 2..(e - 1) : line[k] \in {"-", ":", "|"} \cup Whitespace
     /\ IsBlank(slice(line, e + 1, Len(line)))

\* [cell.strip() for cell in line.strip('|').split('|')]
table_cells(line) ==
  LET parts == split(strip_char(line, "|"), "|")
  IN  [k \in 1..Len(parts) |-> strip(parts[k])]

\* Pass 4: ElementParser.parse_tables
parse_tables ==
  /\ pc = "tables"
  /\ LET table == TableElement(block_items)
         line == strip(lines[i + 1])
         start_ == IF in_block THEN block_start_line ELSE i
     IN  IF i >= Len(lines)
         THEN /\ IF in_block /\ block_items # << >>
                 THEN Emit(table)
                 ELSE UNCHANGED elements_with_position
              /\ EnterLinePass("unordered_lists")
              /\ UNCHANGED <<processed_lines, claims>>
         ELSE /\ i' = i + 1
              /\ pc' = pc
              /\ IF is_processed(i)
                 THEN /\ IF in_block /\ block_items # << >>
                         THEN Emit(table) /\ CloseBlock
                         ELSE UNCHANGED <<elements_with_position, block_items, in_block>>
                      /\ UNCHANGED <<processed_lines, claims, block_start_line>>
                 ELSE IF startswith(line, <<"|">>) /\ endswith(line, <<"|">>)
                 THEN /\ block_start_line' = start_
                      /\ in_block' = TRUE
                      /\ block_items' = IF is_separator(line) THEN block_items
                                        ELSE Append(block_items, table_cells(line))
                      /\ ClaimLine("table", start_)
                      /\ UNCHANGED elements_with_position
                 ELSE IF in_block
                 THEN /\ Emit(table) /\ CloseBlock
                      /\ UNCHANGED <<processed_lines, claims, block_start_line>>
                 ELSE UNCHANGED <<processed_lines, claims, elements_with_position,
                                  in_block, block_start_line, block_items>>
  /\ UNCHANGED <<content, lines, elements, level, resume>>
  /\ UNCHANGED outside_parse_elements

\* The item built at lines 356-385 and 454-485: attributes are extracted
\* from the item text, then links and images are replaced in it.
list_item(item_text, list_type_, list_index_) ==
  LET item(a) ==
        ListItemElement(render_inline(a.text), list_type_, list_index_, a.attributes)
  IN  item(extract_inline_attributes(item_text))

\* parse_unordered_lists without the branch "elif in_list and not line": a
\* blank line ends the open list.
parse_unordered_lists_blank_ends ==
  /\ pc = "unordered_lists"
  /\ LET list_element == ListElement(block_items, "unordered")
         line == strip(lines[i + 1])
         start_ == IF in_block THEN block_start_line ELSE i
     IN  IF i >= Len(lines)
         THEN /\ IF in_block /\ block_items # << >>
                 THEN Emit(list_element)
                 ELSE UNCHANGED elements_with_position
              /\ EnterLinePass("ordered_lists")
              /\ UNCHANGED <<processed_lines, claims>>
         ELSE /\ i' = i + 1
              /\ pc' = pc
              /\ IF is_processed(i)
                 THEN /\ IF in_block /\ block_items # << >>
                         THEN Emit(list_element) /\ CloseBlock
                         ELSE UNCHANGED <<elements_with_position, block_items, in_block>>
                      /\ UNCHANGED <<processed_lines, claims, block_start_line>>
                 ELSE IF startswith(line, <<"=", ">">>)
                 THEN /\ block_start_line' = start_
                      /\ in_block' = TRUE
                      /\ block_items' =
                           Append(block_items,
                                  list_item(strip(slice(line, 3, Len(line))),
                                            "unordered", None))
                      /\ ClaimLine("unordered_list", start_)
                      /\ UNCHANGED elements_with_position
                 ELSE IF in_block
                 THEN /\ Emit(list_element) /\ CloseBlock
                      /\ UNCHANGED <<processed_lines, claims, block_start_line>>
                 ELSE UNCHANGED <<processed_lines, claims, elements_with_position,
                                  in_block, block_start_line, block_items>>
  /\ UNCHANGED <<content, lines, elements, level, resume>>
  /\ UNCHANGED outside_parse_elements

\* Pass 5: ElementParser.parse_unordered_lists
parse_unordered_lists ==
  /\ pc = "unordered_lists"
  /\ LET list_element == ListElement(block_items, "unordered")
         line == strip(lines[i + 1])
         start_ == IF in_block THEN block_start_line ELSE i
     IN  IF i >= Len(lines)
         THEN /\ IF in_block /\ block_items # << >>
                 THEN Emit(list_element)
                 ELSE UNCHANGED elements_with_position
              /\ EnterLinePass("ordered_lists")
              /\ UNCHANGED <<processed_lines, claims>>
         ELSE /\ i' = i + 1
              /\ pc' = pc
              /\ IF is_processed(i)
                 THEN /\ IF in_block /\ block_items # << >>
                         THEN Emit(list_element) /\ CloseBlock
                         ELSE UNCHANGED <<elements_with_position, block_items, in_block>>
                      /\ UNCHANGED <<processed_lines, claims, block_start_line>>
                 ELSE IF startswith(line, <<"=", ">">>)
                 THEN /\ block_start_line' = start_
                      /\ in_block' = TRUE
                      /\ block_items' =
                           Append(block_items,
                                  list_item(strip(slice(line, 3, Len(line))),
                                            "unordered", None))
                      /\ ClaimLine("unordered_list", start_)
                      /\ UNCHANGED elements_with_position
                 ELSE IF in_block /\ line = << >>
                 THEN /\ ClaimLine("unordered_list", block_start_line)
                      /\ UNCHANGED <<elements_with_position, in_block,
                                     block_start_line, block_items>>
                 ELSE IF in_block
                 THEN /\ Emit(list_element) /\ CloseBlock
                      /\ UNCHANGED <<processed_lines, claims, block_start_line>>
                 ELSE UNCHANGED <<processed_lines, claims, elements_with_position,
                                  in_block, block_start_line, block_items>>
  /\ UNCHANGED <<content, lines, elements, level, resume>>
  /\ UNCHANGED outside_parse_elements

\* int(s) of a string of decimal digits
RECURSIVE to_int(_)
to_int(s) ==
  IF s = << >> THEN 0
  ELSE 10 * to_int(slice(s, 1, Len(s) - 1))
       + (CHOOSE d \in 0..9 : <<"0", "1", "2", "3", "4", "5", "6", "7", "8", "9">>[d + 1] = s[Len(s)])

\* re.match(r'^(\d+)\.\s+(.+)$', line): the digits, a dot, the whitespace
\* run and a non-empty rest; a run that reaches the end of the line gives
\* its last character back to group 2.  ok = FALSE when the line does not
\* match.
ordered_list_match(line) ==
  LET nd == Cardinality({n \in 1..Len(line) : \A k \in 1..n : line[k] \in Digits})
      nw == Cardinality({n \in 1..(Len(line) - nd - 1) :
                           \A k \in 1..n : line[nd + 1 + k] \in Whitespace})
      rest == slice(line, nd + 2 + nw, Len(line))
  IN  IF nd >= 1 /\ Len(line) > nd /\ line[nd + 1] = "." /\ nw >= 1
         /\ (rest # << >> \/ nw >= 2)
      THEN [ok |-> TRUE, group1 |-> slice(line, 1, nd),
            group2 |-> IF rest # << >> THEN rest ELSE <<line[Len(line)]>>]
      ELSE [ok |-> FALSE, group1 |-> << >>, group2 |-> << >>]

\* Pass 6: ElementParser.parse_ordered_lists
parse_ordered_lists ==
  /\ pc = "ordered_lists"
  /\ LET list_element == ListElement(block_items, "ordered")
         line == strip(lines[i + 1])
         m == ordered_list_match(line)
         start_ == IF in_block THEN block_start_line ELSE i
     IN  IF i >= Len(lines)
         THEN /\ IF in_block /\ block_items # << >>
                 THEN Emit(list_element)
                 ELSE UNCHANGED elements_with_position
              /\ EnterLinePass("paragraphs")
              /\ UNCHANGED <<processed_lines, claims>>
         ELSE /\ i' = i + 1
              /\ pc' = pc
              /\ IF is_processed(i)
                 THEN /\ IF in_block /\ block_items # << >>
                         THEN Emit(list_element) /\ CloseBlock
                         ELSE UNCHANGED <<elements_with_position, block_items, in_block>>
                      /\ UNCHANGED <<processed_lines, claims, block_start_line>>
                 ELSE IF m.ok
                 THEN /\ block_start_line' = start_
                      /\ in_block' = TRUE
                      /\ block_items' =
                           Append(block_items,
                                  list_item(strip(m.group2), "ordered", to_int(m.group1)))
                      /\ ClaimLine("ordered_list", start_)
                      /\ UNCHANGED elements_with_position
                 ELSE IF in_block /\ line = << >>
                 THEN /\ ClaimLine("ordered_list", block_start_line)
                      /\ UNCHANGED <<elements_with_position, in_block,
                                     block_start_line, block_items>>
                 ELSE IF in_block
                 THEN /\ Emit(list_element) /\ CloseBlock
                      /\ UNCHANGED <<processed_lines, claims, block_start_line>>
                 ELSE UNCHANGED <<processed_lines, claims, elements_with_position,
                                  in_block, block_start_line, block_items>>
  /\ UNCHANGED <<content, lines, elements, level, resume>>
  /\ UNCHANGED outside_parse_elements

\* parse_paragraphs without the branch that ends the open paragraph at an
\* already processed line: the paragraph goes on after the claimed lines.
parse_paragraphs_spans_claimed ==
  /\ pc = "paragraphs"
  /\ LET paragraph == ParagraphElement(render_inline(join(block_items, <<" ">>)))
         line == strip(lines[i + 1])
     IN  IF i >= Len(lines)
         THEN /\ IF in_block /\ block_items # << >>
                 THEN Emit(paragraph)
                 ELSE UNCHANGED elements_with_position
              /\ pc' = "sort"
              /\ UNCHANGED <<processed_lines, claims, i, in_block,
                             block_start_line, block_items>>
         ELSE /\ i' = i + 1
              /\ pc' = pc
              /\ IF is_processed(i)
                 THEN UNCHANGED <<processed_lines, claims, elements_with_position,
                                  in_block, block_start_line, block_items>>
                 ELSE IF line # << >> /\ ~in_block
                 THEN /\ block_start_line' = i
                      /\ in_block' = TRUE
                      /\ block_items' = Append(block_items, line)
                      /\ ClaimLine("paragraph", i)
                      /\ UNCHANGED elements_with_position
                 ELSE IF line # << >> /\ in_block
                 THEN /\ block_items' = Append(block_items, line)
                      /\ ClaimLine("paragraph", block_start_line)
                      /\ UNCHANGED <<elements_with_position, in_block, block_start_line>>
                 ELSE IF line = << >> /\ in_block
                 THEN /\ Emit(paragraph) /\ CloseBlock
                      /\ ClaimLine("paragraph", block_start_line)
                      /\ UNCHANGED block_start_line
                 ELSE UNCHANGED <<processed_lines, claims, elements_with_position,
                                  in_block, block_start_line, block_items>>
  /\ UNCHANGED <<content, lines, elements, level, resume>>
  /\ UNCHANGED outside_parse_elements

\* Pass 7: ElementParser.parse_paragraphs
parse_paragraphs ==
  /\ pc = "paragraphs"
  /\ LET paragraph == ParagraphElement(render_inline(join(block_items, <<" ">>)))
         line == strip(lines[i + 1])
     IN  IF i >= Len(lines)
         THEN /\ IF in_block /\ block_items # << >>
                 THEN Emit(paragraph)
                 ELSE UNCHANGED elements_with_position
              /\ pc' = "sort"
              /\ UNCHANGED <<processed_lines, claims, i, in_block,
                             block_start_line, block_items>>
         ELSE /\ i' = i + 1
              /\ pc' = pc
              /\ IF is_processed(i)
                 THEN /\ IF in_block /\ block_items # << >>
                         THEN Emit(paragraph) /\ CloseBlock
                         ELSE UNCHANGED <<elements_with_position, block_items, in_block>>
                      /\ UNCHANGED <<processed_lines, claims, block_start_line>>
                 ELSE IF line # << >> /\ ~in_block
                 THEN /\ block_start_line' = i
                      /\ in_block' = TRUE
                      /\ block_items' = Append(block_items, line)
                      /\ ClaimLine("paragraph", i)
                      /\ UNCHANGED elements_with_position
                 ELSE IF line # << >> /\ in_block
                 THEN /\ block_items' = Append(block_items, line)
                      /\ ClaimLine("paragraph", block_start_line)
                      /\ UNCHANGED <<elements_with_position, in_block, block_start_line>>
                 ELSE IF line = << >> /\ in_block
                 THEN /\ Emit(paragraph) /\ CloseBlock
                      /\ ClaimLine("paragraph", block_start_line)
                      /\ UNCHANGED block_start_line
                 ELSE UNCHANGED <<processed_lines, claims, elements_with_position,
                                  in_block, block_start_line, block_items>>
  /\ UNCHANGED <<content, lines, elements, level, resume>>
  /\ UNCHANGED outside_parse_elements

(***************************************************************************)
(* Position reconciler: the end of _parse_elements.                        *)
(***************************************************************************)
\* sort_by_position with the sort left out: the elements stay in the order
\* in which the passes appended them.
sort_by_position_skipped(l) == l

\* list.sort(key=lambda x: x['position']): stable, by insertion.
RECURSIVE sort_by_position(_)
sort_by_position(l) ==
  IF l = << >> THEN << >>
  ELSE LET rest == sort_by_position(slice(l, 1, Len(l) - 1))
           x == l[Len(l)]
           before == SelectSeq(rest, LAMBDA y : y.position <= x.position)
           after == SelectSeq(rest, LAMBDA y : y.position > x.position)
       IN  before \o <<x>> \o after

Sort ==
  /\ pc = "sort"
  /\ elements_with_position' = sort_by_position(elements_with_position)
  /\ elements' = [k \in 1..Len(elements_with_position) |->
                    sort_by_position(elements_with_position)[k].element]
  /\ pc' = "done"
  /\ UNCHANGED <<content, lines, processed_lines, claims, level, resume, i,
                 in_block, block_start_line, block_items>>
  /\ UNCHANGED outside_parse_elements

Next ==
  \/ Begin
  \/ parse_headings
  \/ parse_code_blocks
  \/ parse_blockquotes
  \/ parse_tables
  \/ parse_unordered_lists
  \/ parse_ordered_lists
  \/ parse_paragraphs
  \/ Sort

(***************************************************************************)
(* Documents.  Spec parses every document of at most MaxLines lines over   *)
(* LineAlphabet, which has a line for every construct of the markup.       *)
(***************************************************************************)
MaxLines == 3

TextLine == <<"T">>

BlankLine == << >>

SpaceLine == <<" ">>

H1Underline == <<"=", "=", "=">>

H2Underline == <<"-", "-", "-">>

QuoteLine == <<">", "q">>

RowLine == <<"|", "A", "|">>

SeparatorLine == <<"|", "-", "|">>

UnorderedLine == <<"=", ">", "u">>

OrderedLine == <<"1", ".", " ", "o">>

StyleLine == <<"{", "@", "k", ":", "v", "}">>

LineAlphabet ==
  {TextLine, BlankLine, SpaceLine, H1Underline, H2Underline, Fence, QuoteLine,
   RowLine, SeparatorLine, UnorderedLine, OrderedLine, StyleLine}

Docs == UNION {[1..n -> LineAlphabet] : n \in 1..MaxLines}

Init == InitOn(Docs)

Spec == Init /\ [][Next]_vars

\* SpecLong parses longer documents over fewer kinds of lines, so that
\* several elements of different passes meet in one document.
MaxLongLines == 5

CoreAlphabet == {TextLine, BlankLine, H1Underline, Fence, UnorderedLine}

LongDocs == UNION {[1..n -> CoreAlphabet] : n \in 1..MaxLongLines}

InitLong == InitOn(LongDocs)

SpecLong == InitLong /\ [][Next]_vars

\* SpecRoundTrip parses the documents made of one construct of each of the
\* seven kinds, in every order, the constructs either on directly
\* consecutive lines or separated by one blank line.
HeadingTextLine == <<"H">>

CodeBodyLine == <<"c">>

BodyRowLine == <<"|", "1", "|">>

\* One construct per pass, in the order of the passes.
Constructs ==
  << <<HeadingTextLine, H1Underline>>,
     <<Fence, CodeBodyLine, Fence>>,
     <<QuoteLine>>,
     <<RowLine, SeparatorLine, BodyRowLine>>,
     <<UnorderedLine>>,
     <<OrderedLine>>,
     <<TextLine>> >>

RECURSIVE ConstructDoc(_, _, _)
ConstructDoc(order, k, separated) ==
  IF k > Len(Constructs) THEN << >>
  ELSE (IF separated /\ k > 1 THEN <<BlankLine>> ELSE << >>)
       \o Constructs[order[k]] \o ConstructDoc(order, k + 1, separated)

RoundTripDocs ==
  {ConstructDoc(order, 1, separated) :
     order \in Permutations(1..Len(Constructs)), separated \in BOOLEAN}

InitRoundTrip == InitOn(RoundTripDocs)

SpecRoundTrip == InitRoundTrip /\ [][Next]_vars

\* SpecHeading parses a heading, with or without an inline style block in
\* its text, followed by at most MaxTailLines further lines.
MaxTailLines == 2

TitleLine == <<"T", "i", "t", "l", "e">>

StyledTitleLine ==
  TitleLine \o <<" ", "{", "@", " ", "c", "o", "l", "o", "r", ":", " ", "r", "e", "d", ";", " ", "}">>

ClassIdLine == <<"{", ".", "b", "i", "g", " ", "#", "m", "a", "i", "n", "}">>

TailAlphabet == {ClassIdLine, StyleLine, TextLine, BlankLine}

HeadingDocs ==
  {<<t, u>> \o tail :
     t \in {TitleLine, StyledTitleLine},
     u \in {H1Underline, H2Underline},
     tail \in UNION {[1..n -> TailAlphabet] : n \in 0..MaxTailLines}}

InitHeading == InitOn(HeadingDocs)

SpecHeading == InitHeading /\ [][Next]_vars

\* SpecTable parses documents of at most MaxTableLines lines made of table
\* rows, separator rows, fences and text.
MaxTableLines == 6

HeaderRowLine == <<"|", "A", "|", "B", "|">>

SeparatorRowLine == <<"|", "-", "|", "-", "|">>

DataRowLine == <<"|", " ", "1", "|", "2", " ", "|">>

TableAlphabet == {HeaderRowLine, SeparatorRowLine, DataRowLine, Fence, TextLine}

TableDocs == UNION {[1..n -> TableAlphabet] : n \in 1..MaxTableLines}

InitTable == InitOn(TableDocs)

SpecTable == InitTable /\ [][Next]_vars

(***************************************************************************)
(* Properties of the segmentation engine.                                  *)
(***************************************************************************)
NumLines == Len(lines)

LineNumbers == 0..(NumLines - 1)

Parsed == pc = "done"

\* The passes that wrote the flag of line n (0-based).
ClaimersOf(n) == {claims[n + 1][k] : k \in 1..Len(claims[n + 1])}

Positions == {elements_with_position[k].position : k \in 1..Len(elements_with_position)}

ElementsOfType(t) ==
  SelectSeq(elements_with_position, LAMBDA x : x.element.type = t)

\* C1: no source line is claimed by more than one element, and no pass sets
\* the claim flag of a line that is already claimed: every entry of the
\* claim tracker is written at most once during a parse.
C1_NoLineClaimedTwice ==
  \A k \in 1..Len(claims) : Len(claims[k]) <= 1

\* C2: no two elements of the reconciled document report the same start
\* line.
C2_DistinctStartLines ==
  Parsed =>
    \A a, b \in 1..Len(elements_with_position) :
       a # b => elements_with_position[a].position # elements_with_position[b].position

\* C5: every line whose claim flag is set at the end of the parse is a
\* non-blank line.
C5_ClaimedLinesNonBlank ==
  Parsed => \A n \in LineNumbers : is_processed(n) => ~IsBlank(lines[n + 1])

\* A fence line that opens a block which is never closed: the fence lines
\* before it pair up and no fence follows it.
UnterminatedFenceAt(n) ==
  /\ n \in LineNumbers
  /\ startswith(lines[n + 1], Fence)
  /\ \A k \in LineNumbers : k > n => find(lines[k + 1], Fence, 1) = 0
  /\ Cardinality({k \in LineNumbers : k < n /\ find(lines[k + 1], Fence, 1) # 0}) % 2 = 0

\* C8: an opening fence without a closing fence yields a CodeBlock
\* positioned at the fence line, and the code-block pass claims every line
\* from the fence to the end of the document.
C8_UnterminatedFenceClaimsToEnd ==
  Parsed =>
    \A n \in LineNumbers :
       UnterminatedFenceAt(n) =>
         /\ \E k \in 1..Len(elements_with_position) :
               /\ elements_with_position[k].position = n
               /\ elements_with_position[k].element.type = "code_block"
         /\ \A m \in n..(NumLines - 1) : Claimer("code_block", n) \in ClaimersOf(m)

\* C9: every List element has exactly one item flagged first_in_list, its
\* first item, and exactly one item flagged last_in_list, its last item.
C9_ListFirstLastFlags ==
  \A k \in 1..Len(elements_with_position) :
     LET e == elements_with_position[k].element
     IN  e.type = "list" =>
           \A j \in 1..Len(e.items) :
              /\ e.items[j].first_in_list = (j = 1)
              /\ e.items[j].last_in_list = (j = Len(e.items))

\* The pass that appends elements of a type, in the order of the calls of
\* _parse_elements.
PassRank(e) ==
  CASE e.type = "heading" -> 1
    [] e.type = "code_block" -> 2
    [] e.type = "blockquote" -> 3
    [] e.type = "table" -> 4
    [] e.type = "list" /\ e.list_type = "unordered" -> 5
    [] e.type = "list" /\ e.list_type = "ordered" -> 6
    [] e.type = "paragraph" -> 7

IsSortedByPosition(l) ==
  \A a, b \in 1..Len(l) : a < b => l[a].position <= l[b].position

AtPosition(l, p) == SelectSeq(l, LAMBDA x : x.position = p)

\* C3: the sort at the end of _parse_elements leaves the elements ordered by
\* start line ascending whatever order the passes appended them in, keeps
\* the elements of equal start line in the order the passes produced them,
\* and the returned sequence is that order.
C3_SortedByStartLineStable ==
  [][pc = "sort" =>
       /\ IsSortedByPosition(elements_with_position')
       /\ Len(elements_with_position') = Len(elements_with_position)
       /\ \A p \in Positions :
             AtPosition(elements_with_position', p) = AtPosition(elements_with_position, p)
       /\ elements' = [k \in 1..Len(elements_with_position') |->
                         elements_with_position'[k].element]]_vars

\* Witness of C3: a parsed document in which an element of a later pass
\* precedes one of an earlier pass, and two elements share a start line.
C3_Witness ==
  /\ Parsed
  /\ \E a, b \in 1..Len(elements_with_position) :
        /\ a < b
        /\ PassRank(elements_with_position[a].element)
             > PassRank(elements_with_position[b].element)
  /\ \E a, b \in 1..Len(elements_with_position) :
        /\ a < b
        /\ elements_with_position[a].position = elements_with_position[b].position
        /\ PassRank(elements_with_position[a].element)
             < PassRank(elements_with_position[b].element)

\* Lines that passes 1-6 left unclaimed and that are not blank: the lines
\* the paragraph pass has to pick up.
LeftForParagraphs ==
  {n \in LineNumbers :
     /\ ~IsBlank(lines[n + 1])
     /\ \A c \in ClaimersOf(n) : c.pass = "paragraph"}

\* First lines of the maximal contiguous runs of such lines.
ParagraphRunStarts == {n \in LeftForParagraphs : n - 1 \notin LeftForParagraphs}

RunStartOf(n) ==
  Max({m \in ParagraphRunStarts : m <= n /\ \A k \in m..n : k \in LeftForParagraphs})

\* C4: after the seven passes every non-blank line has its claim flag set;
\* the paragraph pass claims every non-blank line that passes 1-6 left
\* unclaimed, and every maximal contiguous run of such lines yields exactly
\* one Paragraph, positioned at the first line of the run.
C4_ParagraphFallback ==
  pc \in {"sort", "done"} =>
    /\ \A n \in LineNumbers : ~IsBlank(lines[n + 1]) => is_processed(n)
    /\ \A n \in LeftForParagraphs :
          claims[n + 1] = <<Claimer("paragraph", RunStartOf(n))>>
    /\ Len(ElementsOfType("paragraph")) = Cardinality(ParagraphRunStarts)
    /\ {ElementsOfType("paragraph")[k].position : k \in 1..Len(ElementsOfType("paragraph"))}
         = ParagraphRunStarts

\* Witness of C4: a parsed document with two paragraphs whose runs are
\* separated by a non-blank line that an earlier pass claimed.
C4_Witness ==
  /\ Parsed
  /\ Len(ElementsOfType("paragraph")) = 2
  /\ \E a, b \in ParagraphRunStarts :
        /\ a < b
        /\ ~IsBlank(lines[b])
        /\ b - 1 \notin LeftForParagraphs

\* The kind of the construct that a line of a round-trip document belongs
\* to, for the line that identifies the construct; 0 for the other lines.
KindOfLine(l) ==
  CASE l = HeadingTextLine -> 1
    [] l = CodeBodyLine -> 2
    [] l = QuoteLine -> 3
    [] l = RowLine -> 4
    [] l = UnorderedLine -> 5
    [] l = OrderedLine -> 6
    [] l = TextLine -> 7
    [] OTHER -> 0

SourceKinds ==
  LET marks == SelectSeq(content, LAMBDA l : KindOfLine(l) # 0)
  IN  [k \in 1..Len(marks) |-> KindOfLine(marks[k])]

ElementKinds == [k \in 1..Len(elements) |-> PassRank(elements[k])]

BlankSeparated == \E k \in 1..Len(content) : content[k] = BlankLine

\* C6 as stated: a document of one construct of each kind, in any order,
\* on consecutive lines or separated by one blank line, parses to one
\* element per construct, the kinds in source order.
C6_RoundTripAnySpacing ==
  Parsed => ElementKinds = SourceKinds

\* C6 amended: the same for the documents whose constructs are separated by
\* one blank line.
C6_RoundTripSeparated ==
  Parsed /\ BlankSeparated => ElementKinds = SourceKinds

\* Witness of C6: a parsed blank-separated document of seven elements that
\* starts with the paragraph and ends with the heading, the reverse of the
\* order in which the passes run.
C6_Witness ==
  /\ Parsed
  /\ BlankSeparated
  /\ Len(elements) = 7
  /\ elements[1].type = "paragraph"
  /\ elements[7].type = "heading"

\* C7: a heading text line with an inline style block, its underline and a
\* following class/id-only line yield exactly one Heading whose attributes
\* hold the inline style and the classes and the id of the following line:
\* for StyledTitleLine, an underline and ClassIdLine, content "Title",
\* style {color: red}, classes [big], id main.
C7_HeadingClassIdLine ==
  Parsed /\ Len(content) = 3 /\ content[1] = StyledTitleLine /\ content[3] = ClassIdLine =>
    /\ Len(elements) = 1
    /\ elements[1].type = "heading"
    /\ elements[1].level = (IF content[2] = H1Underline THEN 1 ELSE 2)
    /\ elements[1].content = TitleLine
    /\ DOMAIN elements[1].attributes = {"style", "classes", "id"}
    /\ elements[1].attributes["style"] = [k \in {<<"c", "o", "l", "o", "r">>} |-> <<"r", "e", "d">>]
    /\ elements[1].attributes["classes"] = << <<"b", "i", "g">> >>
    /\ elements[1].attributes["id"] = <<"m", "a", "i", "n">>

\* A line that the table pass finds unclaimed and pipe-delimited.
InTableRun(n) ==
  /\ n \in LineNumbers
  /\ \A c \in ClaimersOf(n) : c.pass \notin {"heading", "code_block", "blockquote"}
  /\ startswith(strip(lines[n + 1]), <<"|">>)
  /\ endswith(strip(lines[n + 1]), <<"|">>)

\* A maximal run a..b of such lines made of a header row, a separator row
\* and at least one body row.
WellFormedTableRun(a, b) ==
  /\ a + 2 <= b
  /\ \A n \in a..b : InTableRun(n)
  /\ ~InTableRun(a - 1)
  /\ ~InTableRun(b + 1)
  /\ lines[a + 1] # SeparatorRowLine
  /\ lines[a + 2] = SeparatorRowLine
  /\ \A n \in (a + 2)..b : lines[n + 1] # SeparatorRowLine

\* The trimmed cells of the rows of SpecTable.
CellsOf(l) ==
  IF l = HeaderRowLine THEN << <<"A">>, <<"B">> >> ELSE << <<"1">>, <<"2">> >>

ExpectedRows(a, b) ==
  [k \in 1..(b - a) |-> CellsOf(lines[IF k = 1 THEN a + 1 ELSE a + k + 1])]

\* C10: a well-formed run yields exactly one Table, positioned at the header
\* line, whose rows are the trimmed cells of the header and of the body rows
\* in source order; the separator row is claimed and contributes no row.
C10_TableFromRun ==
  Parsed =>
    \A a, b \in LineNumbers :
       WellFormedTableRun(a, b) =>
         /\ AtPosition(ElementsOfType("table"), a)
              = <<Positioned(a, TableElement(ExpectedRows(a, b)))>>
         /\ \A p \in (a + 1)..b : AtPosition(ElementsOfType("table"), p) = << >>
         /\ \A n \in a..b : claims[n + 1] = <<Claimer("table", a)>>

\* C11: every Table element the table pass appends has at least one row,
\* also when the run of pipe-delimited lines holds separator rows only.
C11_TableHasRow ==
  \A k \in 1..Len(elements_with_position) :
     elements_with_position[k].element.type = "table" =>
       Len(elements_with_position[k].element.rows) >= 1

(***************************************************************************)
(* Calls of extract_inline_attributes on their own.  SpecExtract calls it  *)
(* on every fragment made of at most MaxTokens pieces of attribute syntax  *)
(* and text, and then once more on the text it returned.                   *)
(***************************************************************************)
\* No call of _parse_elements is in progress.
parse_idle ==
  /\ content = << >>
  /\ lines = << >>
  /\ processed_lines = << >>
  /\ elements_with_position = << >>
  /\ elements = << >>
  /\ pc = "idle"
  /\ level = 1
  /\ resume = 0
  /\ i = 0
  /\ in_block = FALSE
  /\ block_start_line = -1
  /\ block_items = << >>
  /\ claims = << >>

\* cleaned_text, attributes = self.extract_inline_attributes(text)
ExtractInlineAttributes ==
  /\ extract_pc = "call"
  /\ extracted' = extract_inline_attributes(fragment)
  /\ extract_pc' = "return"
  /\ UNCHANGED <<fragment, parse_vars, global_style, file_vars, html_vars, pdf_vars>>

\* The same call on the cleaned text of the first call.
ExtractAgain ==
  /\ extract_pc = "return"
  /\ fragment' = extracted.text
  /\ extracted' = extract_inline_attributes(extracted.text)
  /\ extract_pc' = "again"
  /\ UNCHANGED <<parse_vars, global_style, file_vars, html_vars, pdf_vars>>

NextExtract == ExtractInlineAttributes \/ ExtractAgain

MaxTokens == 3

IdABlock == <<"{", "#", "a", "}">>

IdBBlock == <<"{", "#", "b", "}">>

ClassBlock == <<"{", ".", "x", "}">>

ClassAndIdBlock == <<"{", ".", "x", " ", "#", "c", "}">>

StyleBlock == <<"{", "@", "k", ":", "v", "}">>

StyleBlockTail == <<"@", "k", ":", "v", "}">>

OpenBrace == <<"{">>

CloseBrace == <<"}">>

Word == <<"t">>

Blank == <<" ">>

Tokens ==
  {IdABlock, IdBBlock, ClassBlock, ClassAndIdBlock, StyleBlock, StyleBlockTail,
   OpenBrace, CloseBrace, Word, Blank}

Fragments ==
  {join(pieces, << >>) : pieces \in UNION {[1..n -> Tokens] : n \in 0..MaxTokens}}

InitExtract ==
  /\ parse_idle
  /\ global_style = None
  /\ file_idle
  /\ html_idle
  /\ pdf_idle
  /\ fragment \in Fragments
  /\ extracted = [text |-> << >>, attributes |-> EmptyDict]
  /\ extract_pc = "call"

SpecExtract == InitExtract /\ [][NextExtract]_vars

(***************************************************************************)
(* Properties of the attribute grammar.                                    *)
(***************************************************************************)
Braces == {"{", "}"}

\* The braces of t pair up into blocks that hold no brace, and every block
\* starts with '#' or '.': t is text with class/id blocks and nothing else
\* in braces.
OnlyClassIdBlocks(t) ==
  /\ \A p \in 1..Len(t) :
        t[p] = "{" =>
          /\ p + 2 <= Len(t)
          /\ t[p + 1] \in {"#", "."}
          /\ t[p + 2] \notin Braces
          /\ \E q \in (p + 3)..Len(t) :
                t[q] = "}" /\ \A r \in (p + 1)..(q - 1) : t[r] \notin Braces
  /\ \A q \in 1..Len(t) :
        t[q] = "}" =>
          \E p \in 1..(q - 1) :
             t[p] = "{" /\ \A r \in (p + 1)..(q - 1) : t[r] \notin Braces

\* The '#' characters that start a selector of a class/id block of t.
IdTokenStarts(t) ==
  {p \in 2..(Len(t) - 1) :
     /\ t[p] = "#"
     /\ t[p - 1] \in {"{"} \cup Whitespace
     /\ t[p + 1] \notin Whitespace \cup Braces
     /\ \E o \in 1..(p - 1) :
           t[o] = "{" /\ \A r \in (o + 1)..p : t[r] \notin Braces}

\* The name of the id selector that starts at p: up to the next whitespace
\* or brace.
IdAt(t, p) ==
  slice(t, p + 1,
        Min({q \in (p + 1)..Len(t) : t[q] \in Whitespace \cup Braces}) - 1)

\* C12: for a fragment with class/id blocks that hold '#' selectors,
\* extract_inline_attributes returns as id the name of the last '#'
\* selector in source order, for any number of blocks and also when a block
\* text occurs more than once.
C12_LastIdWins ==
  (/\ extract_pc = "return"
   /\ OnlyClassIdBlocks(fragment)
   /\ IdTokenStarts(fragment) # {})
  => /\ "id" \in DOMAIN extracted.attributes
     /\ extracted.attributes["id"] = IdAt(fragment, Max(IdTokenStarts(fragment)))

\* t holds no '{' that is followed, anywhere later, by a '}'.
NoBraceSyntax(t) ==
  ~\E p, q \in 1..Len(t) : p < q /\ t[p] = "{" /\ t[q] = "}"

\* t has no leading and no trailing whitespace.
Trimmed(t) == t = << >> \/ (t[1] \notin Whitespace /\ t[Len(t)] \notin Whitespace)

\* C13: for a trimmed fragment without brace syntax the call returns the
\* fragment itself and an empty attribute map; this also holds for the
\* second call, made on the text the first call returned.
C13_CleanTextUnchanged ==
  (/\ extract_pc \in {"return", "again"}
   /\ Trimmed(fragment)
   /\ NoBraceSyntax(fragment))
  => extracted = [text |-> fragment, attributes |-> EmptyDict]

\* Witness of C13: the second call was made on a returned text that holds
\* characters of the attribute syntax and inner whitespace, but no brace
\* pair, and returned it as it is.
C13_Witness ==
  /\ extract_pc = "again"
  /\ NoBraceSyntax(fragment)
  /\ \E p, q \in 2..(Len(fragment) - 1) :
        fragment[p] = "}" /\ fragment[q] \in Whitespace
  /\ extracted.text = fragment

\* C14: the text returned by extract_inline_attributes holds no match of
\* the inline style pattern and no match of the class/id pattern, whatever
\* the nesting or adjacency of the blocks of the input, and it has no
\* leading or trailing whitespace.
C14_NoBlockLeft ==
  extract_pc = "return" =>
    /\ search_inline(extracted.text).start = 0
    /\ search_class_id(extracted.text).start = 0
    /\ Trimmed(extracted.text)

(***************************************************************************)
(* DdownParser.parse_file (parsers/ddown_parser.py).  SpecFile calls it    *)
(* with every output format of Formats on a path that exists or not.       *)
(***************************************************************************)
\* self.output_formats
output_formats == {"html", "pdf"}

\* The format is not checked before the file is looked for.
parse_file_validate_unchecked ==
  /\ file_pc = "validate"
  /\ raised' = raised
  /\ file_pc' = "exists"
  /\ UNCHANGED <<output_format, file_exists, file_text, file_read>>
  /\ UNCHANGED <<parse_vars, extract_vars, global_style, html_vars, pdf_vars>>

\* Lines 36-37: the format is checked first.
parse_file_validate ==
  /\ file_pc = "validate"
  /\ IF output_format \notin output_formats
       THEN raised' = "ValueError" /\ file_pc' = "raised"
       ELSE raised' = raised /\ file_pc' = "exists"
  /\ UNCHANGED <<output_format, file_exists, file_text, file_read>>
  /\ UNCHANGED <<parse_vars, extract_vars, global_style, html_vars, pdf_vars>>

\* The path is opened without the test of its existence.
parse_file_exists_unchecked ==
  /\ file_pc = "exists"
  /\ raised' = raised
  /\ file_pc' = "read"
  /\ UNCHANGED <<output_format, file_exists, file_text, file_read>>
  /\ UNCHANGED <<parse_vars, extract_vars, global_style, html_vars, pdf_vars>>

\* Lines 40-42: Path(file_path).exists().
parse_file_exists ==
  /\ file_pc = "exists"
  /\ IF ~file_exists
       THEN raised' = "FileNotFoundError" /\ file_pc' = "raised"
       ELSE raised' = raised /\ file_pc' = "read"
  /\ UNCHANGED <<output_format, file_exists, file_text, file_read>>
  /\ UNCHANGED <<parse_vars, extract_vars, global_style, html_vars, pdf_vars>>

\* Lines 44-48: the file is read and its text handed to _parse_content.
parse_file_read ==
  /\ file_pc = "read"
  /\ file_read' = TRUE
  /\ content' = file_text
  /\ pc' = "content"
  /\ file_pc' = "parse"
  /\ UNCHANGED <<output_format, file_exists, file_text, raised>>
  /\ UNCHANGED <<lines, processed_lines, elements_with_position, elements,
                 level, resume, i, in_block, block_start_line, block_items, claims>>
  /\ UNCHANGED <<extract_vars, global_style, html_vars, pdf_vars>>

\* Lines 51-57, once _parse_content has returned: neither this class nor
\* BaseParser defines _convert_to_html or _convert_to_pdf, so looking the
\* method up raises AttributeError.
parse_file_convert ==
  /\ file_pc = "parse"
  /\ pc = "done"
  /\ raised' = IF output_format \in {"html", "pdf"} THEN "AttributeError"
               ELSE "ValueError"
  /\ file_pc' = "raised"
  /\ UNCHANGED <<output_format, file_exists, file_text, file_read>>
  /\ UNCHANGED <<parse_vars, extract_vars, global_style, html_vars, pdf_vars>>

NextFile ==
  \/ parse_file_validate
  \/ parse_file_exists
  \/ parse_file_read
  \/ parse_content
  \/ Next
  \/ parse_file_convert

\* The output formats asked for: the two supported ones and two others.
Formats == {"html", "pdf", "docx", ""}

MaxFileLines == 2

FileAlphabet == {TextLine, BlankLine, H1Underline}

FileTexts == UNION {[1..n -> FileAlphabet] : n \in 1..MaxFileLines}

InitFile ==
  /\ parse_idle
  /\ extract_idle
  /\ global_style = None
  /\ html_idle
  /\ pdf_idle
  /\ output_format \in Formats
  /\ file_exists \in BOOLEAN
  /\ file_text \in (IF file_exists THEN FileTexts ELSE {<< >>})
  /\ file_pc = "validate"
  /\ raised = "None"
  /\ file_read = FALSE

SpecFile == InitFile /\ [][NextFile]_vars

\* Nothing of the file was read, parsed or converted.
NothingParsed ==
  /\ ~file_read
  /\ pc = "idle"
  /\ elements = << >>
  /\ global_style = None
  /\ html_calls = 0
  /\ pdf_pc = "idle"

\* C15: a call of parse_file with an output format other than 'html' and
\* 'pdf' ends, as soon as it has made its first step, with ValueError,
\* whether the file exists or not, and nothing was read, parsed or converted.
C15_FormatValidatedFirst ==
  (output_format \notin {"html", "pdf"} /\ file_pc # "validate")
    => /\ file_pc = "raised"
       /\ raised = "ValueError"
       /\ NothingParsed

\* The call with an unsupported format on a file that exists has raised
\* ValueError.
C15_Witness ==
  /\ output_format \notin {"html", "pdf"}
  /\ file_exists
  /\ file_text # << >>
  /\ file_pc = "raised"
  /\ raised = "ValueError"

\* C16: a call of parse_file with a supported output format on a path that
\* does not exist ends, once the path was looked at, with FileNotFoundError,
\* and nothing was read, parsed or converted.
C16_MissingFileRaises ==
  (output_format \in {"html", "pdf"} /\ ~file_exists
     /\ file_pc \notin {"validate", "exists"})
    => /\ file_pc = "raised"
       /\ raised = "FileNotFoundError"
       /\ NothingParsed

\* The call with the format 'pdf' on a missing path has raised
\* FileNotFoundError.
C16_Witness ==
  /\ output_format = "pdf"
  /\ ~file_exists
  /\ file_pc = "raised"
  /\ raised = "FileNotFoundError"

(***************************************************************************)
(* SpecContent: DdownParser._parse_content on the documents of up to       *)
(* MaxContentLines lines that hold the markers of the global style, each   *)
(* on a line of its own, CSS text, plain text and heading underlines.      *)
(***************************************************************************)
MaxContentLines == 4

OpenMarkerLine == OpenMarker

CloseMarkerLine == CloseMarker

CssLine == <<"p", ":", "r">>

ContentAlphabet == {OpenMarkerLine, CloseMarkerLine, CssLine, TextLine, H1Underline}

ContentDocs == UNION {[1..n -> ContentAlphabet] : n \in 1..MaxContentLines}

InitContent ==
  /\ content \in ContentDocs
  /\ lines = << >>
  /\ processed_lines = << >>
  /\ elements_with_position = << >>
  /\ elements = << >>
  /\ pc = "content"
  /\ level = 1
  /\ resume = 0
  /\ i = 0
  /\ in_block = FALSE
  /\ block_start_line = -1
  /\ block_items = << >>
  /\ claims = << >>
  /\ extract_idle
  /\ global_style = None
  /\ file_idle
  /\ html_idle
  /\ pdf_idle

NextContent == parse_content \/ Next

SpecContent == InitContent /\ [][NextContent]_vars

\* Line n of content (1-based) lies inside a global style block: an open
\* marker before it with no close marker in between, a close marker after it.
InsideBlock(n) ==
  /\ content[n] # CloseMarkerLine
  /\ \E o \in 1..(n - 1) :
       /\ content[o] = OpenMarkerLine
       /\ \A k \in (o + 1)..(n - 1) : content[k] # CloseMarkerLine
  /\ \E c \in (n + 1)..Len(content) : content[c] = CloseMarkerLine

\* Line n opens a block.
OpensBlock(n) ==
  /\ content[n] = OpenMarkerLine
  /\ ~InsideBlock(n)
  /\ \E c \in (n + 1)..Len(content) : content[c] = CloseMarkerLine

\* Line n closes a block.
ClosesBlock(n) ==
  /\ content[n] = CloseMarkerLine
  /\ \E o \in 1..(n - 1) :
       /\ content[o] = OpenMarkerLine
       /\ \A k \in (o + 1)..(n - 1) : content[k] # CloseMarkerLine

\* Line n is outside every block and is not a marker of one.
OutsideBlocks(n) == ~InsideBlock(n) /\ ~OpensBlock(n) /\ ~ClosesBlock(n)

HasBlock == \E n \in 1..Len(content) : OpensBlock(n)

FirstOpen == Min({n \in 1..Len(content) : OpensBlock(n)})

FirstClose == Min({n \in (FirstOpen + 1)..Len(content) : content[n] = CloseMarkerLine})

\* The text between the markers of the first block, newlines included.
TextBetweenMarkers ==
  <<"\n">> \o
  (IF FirstClose = FirstOpen + 1 THEN << >>
   ELSE join(SubSeq(content, FirstOpen + 1, FirstClose - 1), <<"\n">>) \o <<"\n">>)

CharsOf(str) == {str[k] : k \in 1..Len(str)}

\* The characters of the texts an element holds: its content, the contents
\* of its items, the cells of its rows.
ElementChars(e) ==
  CharsOf(e.content)
  \cup (IF e.type = "list"
          THEN UNION {CharsOf(e.items[k].content) : k \in 1..Len(e.items)}
          ELSE {})
  \cup (IF e.type = "table"
          THEN UNION {UNION {CharsOf(e.rows[r][c]) : c \in 1..Len(e.rows[r])} :
                        r \in 1..Len(e.rows)}
          ELSE {})

\* The characters that occur inside a block and nowhere outside the blocks.
CharsOnlyInsideBlocks ==
  UNION {CharsOf(content[n]) : n \in {k \in 1..Len(content) : InsideBlock(k)}}
  \ UNION {CharsOf(content[n]) : n \in {k \in 1..Len(content) : OutsideBlocks(k)}}

\* No line handed to the passes and no element holds a character that only
\* occurs inside a global style block.
NothingFromInsideBlocks ==
  /\ \A n \in 1..Len(lines) : CharsOf(lines[n]) \cap CharsOnlyInsideBlocks = {}
  /\ \A k \in 1..Len(elements_with_position) :
       ElementChars(elements_with_position[k].element) \cap CharsOnlyInsideBlocks = {}
  /\ \A k \in 1..Len(elements) :
       ElementChars(elements[k]) \cap CharsOnlyInsideBlocks = {}

Doctype ==
  <<"<", "!", "D", "O", "C", "T", "Y", "P", "E", " ", "h", "t", "m", "l",
    ">">>

HtmlOpen ==
  <<"<", "h", "t", "m", "l", ">">>

HeadOpen ==
  <<"<", "h", "e", "a", "d", ">">>

MetaCharset ==
  <<"<", "m", "e", "t", "a", " ", "c", "h", "a", "r", "s", "e", "t", "=",
    "\"", "U", "T", "F", "-", "8", "\"", ">">>

MetaViewport ==
  <<"<", "m", "e", "t", "a", " ", "n", "a", "m", "e", "=", "\"", "v", "i",
    "e", "w", "p", "o", "r", "t", "\"", " ", "c", "o", "n", "t", "e", "n",
    "t", "=", "\"", "w", "i", "d", "t", "h", "=", "d", "e", "v", "i", "c",
    "e", "-", "w", "i", "d", "t", "h", ",", " ", "i", "n", "i", "t", "i",
    "a", "l", "-", "s", "c", "a", "l", "e", "=", "1", ".", "0", "\"", ">">>

Title ==
  <<"<", "t", "i", "t", "l", "e", ">", "D", "d", "o", "w", "n", " ", "D",
    "o", "c", "u", "m", "e", "n", "t", "<", "/", "t", "i", "t", "l", "e",
    ">">>

StyleOpen ==
  <<"<", "s", "t", "y", "l", "e", ">">>

StyleClose ==
  <<"<", "/", "s", "t", "y", "l", "e", ">">>

HeadClose ==
  <<"<", "/", "h", "e", "a", "d", ">">>

BodyOpen ==
  <<"<", "b", "o", "d", "y", ">">>

BodyClose ==
  <<"<", "/", "b", "o", "d", "y", ">">>

HtmlClose ==
  <<"<", "/", "h", "t", "m", "l", ">">>

\* The keys of a dict in one fixed order.  The dicts of this model do not
\* keep the order of insertion; the documents converted here have style
\* dicts of at most one key.
RECURSIVE keys(_)
keys(S) ==
  IF S = {} THEN << >>
  ELSE LET k == CHOOSE x \in S : TRUE IN <<k>> \o keys(S \ {k})

\* build_html_attributes: style, then class, then id.  An element of a
\* parsed Document has no other key in its attributes.
build_html_attributes(attributes) ==
  LET present(k) == k \in DOMAIN attributes /\ attributes[k] # << >>
      style_items(style, ks) ==
        [n \in 1..Len(ks) |-> ks[n] \o <<":", " ">> \o style[ks[n]]]
      style_part(style) ==
        <<"s", "t", "y", "l", "e", "=", "\"">>
        \o join(style_items(style, keys(DOMAIN style)), <<";", " ">>) \o <<"\"">>
      class_part ==
        <<"c", "l", "a", "s", "s", "=", "\"">>
        \o join(attributes["classes"], <<" ">>) \o <<"\"">>
      id_part == <<"i", "d", "=", "\"">> \o attributes["id"] \o <<"\"">>
      attr_parts ==
        (IF present("style") THEN <<style_part(attributes["style"])>> ELSE << >>)
        \o (IF present("classes") THEN <<class_part>> ELSE << >>)
        \o (IF present("id") THEN <<id_part>> ELSE << >>)
  IN  IF attributes = EmptyDict \/ attr_parts = << >> THEN << >>
      ELSE <<" ">> \o join(attr_parts, <<" ">>)

\* str(level)
str_level(n) == <<"0", "1", "2", "3", "4", "5">>[n + 1]

convert_heading(element) ==
  <<"<", "h", str_level(element.level)>> \o build_html_attributes(element.attributes)
  \o <<">">> \o element.content \o <<"<", "/", "h", str_level(element.level), ">">>

convert_paragraph(element) ==
  <<"<", "p">> \o build_html_attributes(element.attributes) \o <<">">>
  \o element.content \o <<"<", "/", "p", ">">>

convert_list_item(element) ==
  <<"<", "l", "i">> \o build_html_attributes(element.attributes) \o <<">">>
  \o element.content \o <<"<", "/", "l", "i", ">">>

convert_list(element) ==
  LET tag == IF element.list_type = "ordered" THEN <<"o", "l">> ELSE <<"u", "l">>
      html ==
        << <<"<">> \o tag \o build_html_attributes(element.attributes) \o <<">">> >>
        \o [n \in 1..Len(element.items) |-> convert_list_item(element.items[n])]
        \o << <<"<", "/">> \o tag \o <<">">> >>
  IN  join(html, <<"\n">>)

\* The attributes of the element as _convert_code_block leaves them:
\* 'attributes' is the dict of the element itself, and with a language the
\* class 'language-<language>' is appended to its 'classes' list.
code_block_attributes(element) ==
  LET attributes == element.attributes
      classes == IF "classes" \in DOMAIN attributes THEN attributes["classes"]
                 ELSE << >>
      language_class ==
        <<"l", "a", "n", "g", "u", "a", "g", "e", "-">> \o element.language
  IN  IF element.language # << >>
      THEN dict_set(attributes, "classes", Append(classes, language_class))
      ELSE attributes

\* The string _convert_code_block returns.
convert_code_block(element) ==
  LET html ==
        << <<"<", "p", "r", "e">>
             \o build_html_attributes(code_block_attributes(element)) \o <<">">>,
           <<"<", "c", "o", "d", "e", ">">> \o element.content
             \o <<"<", "/", "c", "o", "d", "e", ">">>,
           <<"<", "/", "p", "r", "e", ">">> >>
  IN  join(html, <<"\n">>)

convert_blockquote(element) ==
  <<"<", "b", "l", "o", "c", "k", "q", "u", "o", "t", "e">>
  \o build_html_attributes(element.attributes) \o <<">">> \o element.content
  \o <<"<", "/", "b", "l", "o", "c", "k", "q", "u", "o", "t", "e", ">">>

\* "<tr>", one cell per entry of row with the tag given, "</tr>".
table_row(row, cell_tag) ==
  << <<"<", "t", "r", ">">> >>
  \o [n \in 1..Len(row) |->
        <<"<">> \o cell_tag \o <<">">> \o row[n] \o <<"<", "/">> \o cell_tag \o <<">">>]
  \o << <<"<", "/", "t", "r", ">">> >>

RECURSIVE table_rows(_)
table_rows(rows) ==
  IF rows = << >> THEN << >>
  ELSE table_row(rows[1], <<"t", "d">>) \o table_rows(Tail(rows))

convert_table(element) ==
  LET rows == element.rows
      thead ==
        IF rows[1] = << >> THEN << >>
        ELSE << <<"<", "t", "h", "e", "a", "d", ">">> >>
             \o table_row(rows[1], <<"t", "h">>)
             \o << <<"<", "/", "t", "h", "e", "a", "d", ">">> >>
      tbody ==
        IF Len(rows) > 1
        THEN << <<"<", "t", "b", "o", "d", "y", ">">> >>
             \o table_rows(Tail(rows))
             \o << <<"<", "/", "t", "b", "o", "d", "y", ">">> >>
        ELSE << >>
      html ==
        << <<"<", "t", "a", "b", "l", "e">>
             \o build_html_attributes(element.attributes) \o <<">">> >>
        \o thead \o tbody
        \o << <<"<", "/", "t", "a", "b", "l", "e", ">">> >>
  IN  IF rows = << >> THEN << >> ELSE join(html, <<"\n">>)

\* _convert_element_to_html for the six types a parsed Document holds.
convert_element_to_html(element) ==
  CASE element.type = "heading" -> convert_heading(element)
    [] element.type = "paragraph" -> convert_paragraph(element)
    [] element.type = "list" -> convert_list(element)
    [] element.type = "code_block" -> convert_code_block(element)
    [] element.type = "blockquote" -> convert_blockquote(element)
    [] element.type = "table" -> convert_table(element)

\* The element as the call of _convert_element_to_html leaves it.
element_after_convert(element) ==
  IF element.type = "code_block"
  THEN [element EXCEPT !.attributes = code_block_attributes(element)]
  ELSE element

\* The string HtmlConverter.convert returns for the Document.  A parsed
\* Document has no 'dom_mode' key.
convert_html(style, els) ==
  LET html_parts ==
        <<Doctype, HtmlOpen, HeadOpen, MetaCharset, MetaViewport, Title, StyleOpen>>
        \o (IF style # None /\ style # << >> THEN <<style>> ELSE << >>)
        \o <<StyleClose, HeadClose, BodyOpen>>
        \o [n \in 1..Len(els) |-> convert_element_to_html(els[n])]
        \o <<BodyClose, HtmlClose>>
  IN  join(html_parts, <<"\n">>)

MaxConverts == 2

\* One call of HtmlConverter.convert on the parsed Document: the string is
\* returned and the elements are left as the element converters left them.
HtmlConverter_convert ==
  /\ pc = "done"
  /\ file_pc = "idle"
  /\ pdf_pc = "idle"
  /\ html_calls < MaxConverts
  /\ html_out' = convert_html(global_style, elements)
  /\ html_calls' = html_calls + 1
  /\ elements' = [n \in 1..Len(elements) |-> element_after_convert(elements[n])]
  /\ UNCHANGED <<content, lines, processed_lines, elements_with_position, pc,
                 level, resume, i, in_block, block_start_line, block_items, claims>>
  /\ UNCHANGED <<extract_vars, global_style, file_vars, pdf_vars>>

(***************************************************************************)
(* SpecHtml: a document of up to MaxHtmlLines lines is parsed by           *)
(* _parse_content and the Document is then converted to HTML up to         *)
(* MaxConverts times.                                                      *)
(***************************************************************************)
MaxHtmlLines == 3

LanguageFence == Fence \o <<"p", "y">>

GlobalStyleLine == OpenMarker \o CssLine \o CloseMarker

HtmlAlphabet ==
  {LanguageFence, Fence, CodeBodyLine, TextLine, H1Underline, ClassIdLine,
   UnorderedLine, QuoteLine, RowLine, SeparatorLine, GlobalStyleLine}

HtmlDocs == UNION {[1..n -> HtmlAlphabet] : n \in 1..MaxHtmlLines}

InitHtml ==
  /\ content \in HtmlDocs
  /\ lines = << >>
  /\ processed_lines = << >>
  /\ elements_with_position = << >>
  /\ elements = << >>
  /\ pc = "content"
  /\ level = 1
  /\ resume = 0
  /\ i = 0
  /\ in_block = FALSE
  /\ block_start_line = -1
  /\ block_items = << >>
  /\ claims = << >>
  /\ extract_idle
  /\ global_style = None
  /\ file_idle
  /\ html_idle
  /\ pdf_idle

NextHtml == parse_content \/ Next \/ HtmlConverter_convert

SpecHtml == InitHtml /\ [][NextHtml]_vars

\* C19: a call of HtmlConverter.convert leaves every element, with its
\* attribute map, and the global style of the Document as they were, and a
\* call after the first returns the string the call before it returned.
C19_ConvertLeavesDocument ==
  [][html_calls' # html_calls =>
       /\ elements' = elements
       /\ global_style' = global_style
       /\ (html_calls >= 1 => html_out' = html_out)]_vars

(***************************************************************************)
(* PdfConverter.convert (converters/pdf_converter.py).  A backend of the   *)
(* environment is "missing" (its import raises ImportError), "raises" (it  *)
(* imports and raises while rendering) or "renders" (it returns bytes).    *)
(***************************************************************************)
Backends == {"missing", "raises", "renders"}

Systems == {"Windows", "Darwin", "Linux"}

\* error_msg of convert: the first line and the line that names the
\* platform; the installation steps after it are fixed by the platform.
error_msg(sys) ==
  <<"PDF conversion requires additional dependencies.",
    IF sys = "Windows" THEN "For Windows users:"
    ELSE IF sys = "Darwin" THEN "For macOS users:"
    ELSE "For Linux users:">>

\* Line 34: the Document is converted to HTML first.
PdfConverter_convert ==
  /\ pc = "done"
  /\ pdf_pc = "html"
  /\ html_out' = convert_html(global_style, elements)
  /\ html_calls' = html_calls + 1
  /\ elements' = [n \in 1..Len(elements) |-> element_after_convert(elements[n])]
  /\ pdf_pc' = "pdfkit"
  /\ UNCHANGED <<pdfkit, weasyprint, system, pdf_out, pdf_raised, stderr>>
  /\ UNCHANGED <<content, lines, processed_lines, elements_with_position, pc,
                 level, resume, i, in_block, block_start_line, block_items, claims>>
  /\ UNCHANGED <<extract_vars, global_style, file_vars>>

\* Lines 37-39 with _try_pdfkit: ImportError gives None, any other
\* exception is printed to sys.stderr and gives None, bytes are returned.
try_pdfkit ==
  /\ pdf_pc = "pdfkit"
  /\ IF pdfkit = "renders"
       THEN pdf_out' = "pdf_bytes" /\ pdf_pc' = "returned" /\ stderr' = stderr
       ELSE /\ pdf_out' = pdf_out
            /\ pdf_pc' = "weasyprint"
            /\ stderr' = IF pdfkit = "raises" THEN Append(stderr, "pdfkit error")
                         ELSE stderr
  /\ UNCHANGED <<pdfkit, weasyprint, system, pdf_raised>>
  /\ UNCHANGED <<parse_vars, extract_vars, global_style, file_vars, html_vars>>

\* Lines 41-43 with _try_weasyprint.
try_weasyprint ==
  /\ pdf_pc = "weasyprint"
  /\ IF weasyprint = "renders"
       THEN pdf_out' = "pdf_bytes" /\ pdf_pc' = "returned" /\ stderr' = stderr
       ELSE /\ pdf_out' = pdf_out
            /\ pdf_pc' = "failed"
            /\ stderr' = IF weasyprint = "raises"
                         THEN Append(stderr, "WeasyPrint error")
                         ELSE stderr
  /\ UNCHANGED <<pdfkit, weasyprint, system, pdf_raised>>
  /\ UNCHANGED <<parse_vars, extract_vars, global_style, file_vars, html_vars>>

\* Lines 45-70: neither method gave bytes.
raise_import_error ==
  /\ pdf_pc = "failed"
  /\ pdf_raised' = <<"ImportError", error_msg(system)>>
  /\ pdf_pc' = "raised"
  /\ UNCHANGED <<pdfkit, weasyprint, system, pdf_out, stderr>>
  /\ UNCHANGED <<parse_vars, extract_vars, global_style, file_vars, html_vars>>

NextPdf ==
  \/ parse_content
  \/ Next
  \/ PdfConverter_convert
  \/ try_pdfkit
  \/ try_weasyprint
  \/ raise_import_error

PdfDocs == {<<TextLine>>, <<LanguageFence, CodeBodyLine, Fence>>}

InitPdf ==
  /\ content \in PdfDocs
  /\ lines = << >>
  /\ processed_lines = << >>
  /\ elements_with_position = << >>
  /\ elements = << >>
  /\ pc = "content"
  /\ level = 1
  /\ resume = 0
  /\ i = 0
  /\ in_block = FALSE
  /\ block_start_line = -1
  /\ block_items = << >>
  /\ claims = << >>
  /\ extract_idle
  /\ global_style = None
  /\ file_idle
  /\ html_idle
  /\ pdfkit \in Backends
  /\ weasyprint \in Backends
  /\ system \in Systems
  /\ pdf_pc = "html"
  /\ pdf_out = "None"
  /\ pdf_raised = "None"
  /\ stderr = << >>

SpecPdf == InitPdf /\ [][NextPdf]_vars

\* What the caller of convert gets when no backend is installed.
MissingBackendOutcome == <<"ImportError", error_msg(system)>>

\* C18: when a backend that is installed raised while rendering and the
\* call ended with an exception, the caller gets something else than what
\* it gets when no backend is installed.
C18_RenderFailureDistinct ==
  (pdf_pc = "raised" /\ (pdfkit = "raises" \/ weasyprint = "raises"))
    => pdf_raised # MissingBackendOutcome

\* The line is a bare style declaration: '{@ ... }' once stripped.
BareStyleLine(l) ==
  startswith(strip(l), <<"{", "@">>) /\ endswith(strip(l), <<"}">>)

\* C20: the step of the heading pass that emits the heading whose text line
\* is line s sets the flags of the lines s and s+1, sets the flag of line
\* s+2 when that line is a bare style declaration, and leaves the flag of
\* every other line, a non-style line s+2 included, as it was.
C20_HeadingClaimsTextAndUnderline ==
  [][(pc = "headings" /\ Len(elements_with_position') = Len(elements_with_position) + 1) =>
       LET s == elements_with_position'[Len(elements_with_position')].position
       IN  \A k \in 0..(Len(lines) - 1) :
             IF k \in {s, s + 1} \/ (k = s + 2 /\ BareStyleLine(lines[k + 1]))
             THEN processed_lines'[k + 1]
             ELSE processed_lines'[k + 1] = processed_lines[k + 1]]_vars


\* The style map of the declarations "k: v; ..." of a bare style line.
StyleOfLine(l) == parse_style_content(strip(slice(strip(l), 3, Len(strip(l)) - 1)))

\* C21: when the line right after the underline of a heading is a bare
\* style declaration, the heading pass has claimed that line and the style
\* map of the Heading is the declarations of that line updated, key by key,
\* with the declarations of the inline style block of the heading text.
C21_StyleLineAfterUnderlineMerged ==
  (Parsed /\ Len(content) >= 3 /\ BareStyleLine(content[3])) =>
    LET inline == extract_inline_attributes(strip(content[1])).attributes
        inline_style == IF "style" \in DOMAIN inline THEN inline["style"] ELSE EmptyDict
    IN  /\ elements[1].type = "heading"
        /\ Claimer("heading", 0) \in ClaimersOf(2)
        /\ "style" \in DOMAIN elements[1].attributes
        /\ elements[1].attributes["style"] =
             dict_update(StyleOfLine(content[3]), inline_style)


\* The pc values of the five line-by-line passes.
LinePasses == {"blockquotes", "tables", "unordered_lists", "ordered_lists", "paragraphs"}

\* C22: a step of a line-by-line pass at a line whose flag is already set
\* claims nothing, opens no element and adds nothing to the open element.
C22_LinePassesSkipClaimedLines ==
  [][(pc \in LinePasses /\ i < Len(lines) /\ processed_lines[i + 1]) =>
       /\ processed_lines' = processed_lines
       /\ claims' = claims
       /\ (in_block' => in_block)
       /\ block_items' \in {block_items, << >>}
       /\ \A k \in 1..Len(elements_with_position') :
            k > Len(elements_with_position) =>
              elements_with_position'[k].position < i]_vars

\* A quote line between two fences: the document is parsed into the code
\* block alone, the blockquote pass has gone over the claimed quote line.
C22_Witness ==
  /\ Parsed
  /\ content = <<Fence, QuoteLine, Fence>>
  /\ Len(elements) = 1
  /\ elements[1].type = "code_block"
  /\ ClaimersOf(1) = {Claimer("code_block", 0)}


\* Line n (0-based) is unclaimed when the blockquote pass reaches it.
FreeForBlockquotes(n) ==
  /\ n \in LineNumbers
  /\ \A c \in ClaimersOf(n) : c.pass \notin {"heading", "code_block"}

QuotePrefixed(n) == startswith(strip(lines[n + 1]), <<">">>)

\* Line n belongs to a blockquote run: it is unclaimed and non-blank, and
\* it starts with '>' or the line before it belongs to a run.
RECURSIVE InQuoteRun(_)
InQuoteRun(n) ==
  /\ FreeForBlockquotes(n)
  /\ ~IsBlank(lines[n + 1])
  /\ (QuotePrefixed(n) \/ InQuoteRun(n - 1))

\* The run a..b is maximal and opens at a.
QuoteRun(a, b) ==
  /\ a <= b
  /\ \A n \in a..b : InQuoteRun(n)
  /\ ~InQuoteRun(a - 1)
  /\ ~InQuoteRun(b + 1)

\* The line of the run as the blockquote holds it.
QuoteText(n) ==
  IF QuotePrefixed(n) THEN strip(Tail(strip(lines[n + 1]))) ELSE strip(lines[n + 1])

\* C23: every blockquote run yields exactly one Blockquote, positioned at
\* the opening line, that claims every line of the run and whose content is
\* the stripped lines of the run, '>' removed, joined by newlines; and
\* there is no other Blockquote.
C23_BlockquoteRun ==
  Parsed =>
    /\ \A a, b \in LineNumbers :
         QuoteRun(a, b) =>
           /\ \A n \in a..b : Claimer("blockquote", a) \in ClaimersOf(n)
           /\ \E k \in 1..Len(elements_with_position) :
                /\ elements_with_position[k] =
                     Positioned(a, BlockquoteElement(
                       join([n \in 1..(b - a + 1) |-> QuoteText(a + n - 1)], <<"\n">>)))
                /\ \A j \in 1..Len(elements_with_position) :
                     (elements_with_position[j].element.type = "blockquote"
                        /\ elements_with_position[j].position = a) => j = k
    /\ Len(ElementsOfType("blockquote")) =
         Cardinality({a \in LineNumbers : \E b \in LineNumbers : QuoteRun(a, b)})

\* A quote line followed by an unordered item and a pipe row: the parsed
\* document is one Blockquote holding the three lines.
C23_Witness ==
  /\ Parsed
  /\ content = <<QuoteLine, UnorderedLine, RowLine>>
  /\ Len(elements) = 1
  /\ elements[1] = BlockquoteElement(<<"q", "\n", "=", ">", "u", "\n", "|", "A", "|">>)


\* The lines a..b are a maximal run of unclaimed pipe-delimited lines.
TableRun(a, b) ==
  /\ a <= b
  /\ \A n \in a..b : InTableRun(n)
  /\ ~InTableRun(a - 1)
  /\ ~InTableRun(b + 1)

\* C24: a run of unclaimed pipe-delimited lines that has no second line, or
\* whose second line is no separator row, yields no Table, and each of its
\* lines is left to the paragraph pass.
C24_TableNeedsSeparator ==
  Parsed =>
    \A a, b \in LineNumbers :
      (TableRun(a, b) /\ (a = b \/ ~is_separator(strip(lines[a + 2])))) =>
        /\ \A k \in 1..Len(elements_with_position) :
             elements_with_position[k].element.type = "table" =>
               elements_with_position[k].position \notin a..b
        /\ \A n \in a..b : \A c \in ClaimersOf(n) : c.pass = "paragraph"


\* C25: every line of a maximal run of unclaimed pipe-delimited lines is
\* claimed by the table that starts at the first line of that run, and every
\* Table is positioned at the first line of such a run: a table never spans
\* a claimed line, also when the run before the claimed line was made of
\* separator rows only.
C25_ClaimedLineEndsTable ==
  Parsed =>
    /\ \A a, b \in LineNumbers :
         TableRun(a, b) =>
           \A n \in a..b :
             {c \in ClaimersOf(n) : c.pass = "table"} = {Claimer("table", a)}
    /\ \A k \in 1..Len(elements_with_position) :
         elements_with_position[k].element.type = "table" =>
           \E b \in LineNumbers : TableRun(elements_with_position[k].position, b)


\* The passes that run before the list pass of the given type.
PassesBefore(list_type) ==
  {"heading", "code_block", "blockquote", "table"}
  \cup (IF list_type = "ordered" THEN {"unordered_list"} ELSE {})

ListClaimer(list_type, start_) ==
  Claimer(IF list_type = "ordered" THEN "ordered_list" ELSE "unordered_list", start_)

\* Line n is unclaimed when the list pass of the type reaches it.
FreeForLists(n, list_type) ==
  /\ n \in LineNumbers
  /\ \A c \in ClaimersOf(n) : c.pass \notin PassesBefore(list_type)

\* Line n matches the item pattern of the list type.
IsListItem(n, list_type) ==
  IF list_type = "ordered" THEN ordered_list_match(strip(lines[n + 1])).ok
  ELSE startswith(strip(lines[n + 1]), <<"=", ">">>)

\* Line n belongs to a list run: it is unclaimed, and it is an item or a
\* blank line after a line of a run.
RECURSIVE InListRun(_, _)
InListRun(n, list_type) ==
  /\ FreeForLists(n, list_type)
  /\ \/ IsListItem(n, list_type)
     \/ IsBlank(lines[n + 1]) /\ InListRun(n - 1, list_type)

ListRun(a, b, list_type) ==
  /\ a <= b
  /\ \A n \in a..b : InListRun(n, list_type)
  /\ ~InListRun(a - 1, list_type)
  /\ ~InListRun(b + 1, list_type)

\* The item the pass builds from line n.
ItemOfLine(n, list_type) ==
  LET line == strip(lines[n + 1])
  IN  IF list_type = "ordered"
      THEN list_item(strip(ordered_list_match(line).group2), "ordered",
                     to_int(ordered_list_match(line).group1))
      ELSE list_item(strip(slice(line, 3, Len(line))), "unordered", None)

\* The items of the run a..b in source order.
ItemsOfRun(a, b, list_type) ==
  LET item_lines == SelectSeq([n \in 1..(b - a + 1) |-> a + n - 1],
                              LAMBDA x : IsListItem(x, list_type))
  IN  [k \in 1..Len(item_lines) |-> ItemOfLine(item_lines[k], list_type)]

\* C26: for both list types, every run of items and of the blank lines
\* between and after them yields exactly one List, positioned at the first
\* item and holding the items of the run in source order, that claims every
\* line of the run; and there is no other List of that type.
C26_BlankLinesContinueList ==
  Parsed =>
    \A list_type \in {"unordered", "ordered"} :
      /\ \A a, b \in LineNumbers :
           ListRun(a, b, list_type) =>
             /\ \A n \in a..b : ListClaimer(list_type, a) \in ClaimersOf(n)
             /\ Cardinality({k \in 1..Len(elements_with_position) :
                  elements_with_position[k] =
                    Positioned(a, ListElement(ItemsOfRun(a, b, list_type), list_type))}) = 1
      /\ Cardinality({k \in 1..Len(elements_with_position) :
           /\ elements_with_position[k].element.type = "list"
           /\ elements_with_position[k].element.list_type = list_type})
         = Cardinality({a \in LineNumbers : \E b \in LineNumbers : ListRun(a, b, list_type)})

\* Two unordered items with a blank line between them: one List of the two
\* items.
C26_Witness ==
  /\ Parsed
  /\ content = <<UnorderedLine, BlankLine, UnorderedLine>>
  /\ Len(elements) = 1
  /\ elements[1].type = "list"
  /\ Len(elements[1].items) = 2
  /\ ClaimersOf(1) = {Claimer("unordered_list", 0)}


\* C27: no step of the parse clears a claim flag: a flag that is true stays
\* true, at the same index, in the next state.
C27_FlagsNeverCleared ==
  [][\A k \in 1..Len(processed_lines) :
       processed_lines[k] => (k <= Len(processed_lines') /\ processed_lines'[k])]_vars

\* A code block of two fences followed by a text line: at the end of the
\* parse the flags the code-block pass set are still set, along with the
\* flag the paragraph pass set five passes later.
C27_Witness ==
  /\ Parsed
  /\ content = <<Fence, Fence, TextLine>>
  /\ processed_lines = <<TRUE, TRUE, TRUE>>
  /\ ClaimersOf(0) = {Claimer("code_block", 0)}
  /\ ClaimersOf(2) = {Claimer("paragraph", 2)}

\* C28: from the split into lines on, the claim tracker has one entry per
\* line of the stripped text.
C28_TrackerLengthIsLineCount ==
  pc \notin {"idle", "content", "start"} => Len(processed_lines) = Len(lines)


(***************************************************************************)
(* SpecInline parses documents whose lines are made of link and image      *)
(* syntax: each line is one to MaxFragments fragments written one after    *)
(* the other, alone (a paragraph line) or behind the unordered item        *)
(* marker, or is blank.                                                    *)
(***************************************************************************)
MaxInlineLines == 2

MaxFragments == 2

LinkFragment == <<"[", "a", "]", "(", "u", ")">>

ImageFragment == <<"!">> \o LinkFragment

WordFragment == <<"x">>

InlineFragments == {LinkFragment, ImageFragment, WordFragment}

InlineTexts ==
  {join(f, << >>) : f \in UNION {[1..n -> InlineFragments] : n \in 1..MaxFragments}}

ItemMarker == <<"=", ">", " ">>

InlineAlphabet ==
  InlineTexts \cup {ItemMarker \o t : t \in InlineTexts} \cup {BlankLine}

InlineDocs == UNION {[1..n -> InlineAlphabet] : n \in 1..MaxInlineLines}

InitInline == InitOn(InlineDocs)

SpecInline == InitInline /\ [][Next]_vars

\* The text the paragraph pass joins for the paragraph that starts at line
\* p: the stripped non-blank lines the paragraph claimed, in order.
ParagraphText(p) ==
  LET claimed == SelectSeq([n \in 1..Len(lines) |-> n - 1],
                           LAMBDA n : /\ Claimer("paragraph", p) \in ClaimersOf(n)
                                      /\ ~IsBlank(lines[n + 1]))
  IN  join([k \in 1..Len(claimed) |-> strip(lines[claimed[k] + 1])], <<" ">>)

\* The cleaned text of the item on line n: what is left of the item text
\* once its attribute blocks are extracted.
CleanedItemText(n, list_type) ==
  LET line == strip(lines[n + 1])
  IN  IF list_type = "ordered"
      THEN extract_inline_attributes(strip(ordered_list_match(line).group2)).text
      ELSE extract_inline_attributes(strip(slice(line, 3, Len(line)))).text

\* The item lines of the list that starts at line a, in order.
ItemLines(a, list_type) ==
  SelectSeq([n \in 1..Len(lines) |-> n - 1],
            LAMBDA n : /\ ListClaimer(list_type, a) \in ClaimersOf(n)
                       /\ IsListItem(n, list_type))

\* The pairs <<cleaned text, content>> of the paragraphs and list items of
\* the parsed document.
RenderedTexts ==
  UNION {
    LET e == elements_with_position[k]
    IN  IF e.element.type = "paragraph"
        THEN {<<ParagraphText(e.position), e.element.content>>}
        ELSE IF e.element.type = "list"
        THEN {<<CleanedItemText(ItemLines(e.position, e.element.list_type)[j],
                                e.element.list_type),
                e.element.items[j].content>> : j \in 1..Len(e.element.items)}
        ELSE {}
    : k \in 1..Len(elements_with_position)}

\* Every match of the text replaced where it stands by its HTML form, the
\* text between the matches kept.
RECURSIVE ReplacedInPlace(_, _, _)
ReplacedInPlace(text, inline_elements, from) ==
  IF inline_elements = << >> THEN slice(text, from, Len(text))
  ELSE slice(text, from, inline_elements[1].start - 1)
       \o inline_elements[1].html
       \o ReplacedInPlace(text, Tail(inline_elements),
                          inline_elements[1].start + Len(inline_elements[1].original))

\* C29: in the content of every paragraph and list item, each image of the
\* cleaned text stands as its image form and each plain link as its link
\* form, at the place where it matched: no image is rendered as a link,
\* also when its [alt](url) occurs as a plain link in the same text.
C29_ImageBeforeLink ==
  Parsed =>
    \A r \in RenderedTexts :
      r[2] = ReplacedInPlace(r[1], process_inline_elements(r[1]), 1)


(***************************************************************************)
(* One call of extract_inline_attributes, iteration by iteration.          *)
(* extracted holds the locals cleaned_text and attributes, extract_pc the  *)
(* loop the call is in.                                                    *)
(***************************************************************************)
\* The first "while True": break when the inline pattern finds nothing,
\* else one iteration.
inline_style_step ==
  /\ extract_pc = "style_loop"
  /\ LET inline_style_match == search_inline(extracted.text)
     IN  IF inline_style_match.start = 0
         THEN /\ extract_pc' = "class_id_loop"
              /\ UNCHANGED extracted
         ELSE /\ extracted' = inline_style_iteration(extracted.text, extracted.attributes,
                                                     inline_style_match)
              /\ UNCHANGED extract_pc
  /\ UNCHANGED <<fragment, parse_vars, global_style, file_vars, html_vars, pdf_vars>>

\* The second "while True": break when the class/id pattern finds nothing,
\* else one iteration.
class_id_step ==
  /\ extract_pc = "class_id_loop"
  /\ LET class_id_match == search_class_id(extracted.text)
     IN  IF class_id_match.start = 0
         THEN /\ extract_pc' = "strip"
              /\ UNCHANGED extracted
         ELSE /\ extracted' = class_id_iteration(extracted.text, extracted.attributes,
                                                 class_id_match)
              /\ UNCHANGED extract_pc
  /\ UNCHANGED <<fragment, parse_vars, global_style, file_vars, html_vars, pdf_vars>>

\* return cleaned_text.strip(), attributes
extract_return ==
  /\ extract_pc = "strip"
  /\ extracted' = [extracted EXCEPT !.text = strip(@)]
  /\ extract_pc' = "returned"
  /\ UNCHANGED <<fragment, parse_vars, global_style, file_vars, html_vars, pdf_vars>>

NextExtractLoop == inline_style_step \/ class_id_step \/ extract_return

\* attributes = {}; cleaned_text = text
InitExtractLoop ==
  /\ parse_idle
  /\ global_style = None
  /\ file_idle
  /\ html_idle
  /\ pdf_idle
  /\ fragment \in Fragments
  /\ extracted = [text |-> fragment, attributes |-> EmptyDict]
  /\ extract_pc = "style_loop"

\* The two loops of the call.
ExtractLoops == {"style_loop", "class_id_loop"}

\* The call runs on one thread that keeps executing, so a step that can be
\* taken is taken: weak fairness of the return step and of the loop steps.
\* For the loop steps WF_vars(inline_style_step \/ class_id_step) is
\* written out as []<>~ENABLED \/ []<><<...>>_vars: such a step is possible
\* exactly in the states of ExtractLoops, and under [][NextExtractLoop]_vars
\* a step that leaves such a state and changes vars is one of them.
ExtractLoopFairness ==
  /\ WF_vars(extract_return)
  /\ \/ []<>(extract_pc \notin ExtractLoops)
     \/ []<><<extract_pc \in ExtractLoops>>_vars

SpecExtractLoop ==
  InitExtractLoop /\ [][NextExtractLoop]_vars /\ ExtractLoopFairness

\* The call, run iteration by iteration, returns what the call as a whole
\* returns.
ExtractLoopReturnsCallResult ==
  extract_pc = "returned" => extracted = extract_inline_attributes(fragment)

\* The iteration the loop the call is in would run next, if its pattern
\* still matches, removes a match of at least one character and leaves a
\* strictly shorter text.
shortens(text, m, next) ==
  m.start # 0 => m.end >= m.start /\ Len(next.text) < Len(text)

IterationShortens ==
  LET style(m) ==
        shortens(extracted.text, m,
                 inline_style_iteration(extracted.text, extracted.attributes, m))
      class_id(m) ==
        shortens(extracted.text, m,
                 class_id_iteration(extracted.text, extracted.attributes, m))
  IN  /\ extract_pc = "style_loop" => style(search_inline(extracted.text))
      /\ extract_pc = "class_id_loop" => class_id(search_class_id(extracted.text))

\* C30: every iteration of the style-block loop and of the class/id-block
\* loop removes a non-empty match and makes the working text strictly
\* shorter, and every call of extract_inline_attributes returns.
C30_ExtractTerminates ==
  /\ []IterationShortens
  /\ <>(extract_pc = "returned")

\* A call that went once through the first loop and twice through the
\* second before it returned.
C30_Witness ==
  /\ extract_pc = "returned"
  /\ fragment = StyleBlock \o IdABlock \o ClassBlock
  /\ extracted.text = << >>
  /\ DOMAIN extracted.attributes = {"style", "id", "classes"}

=============================================================================
